---------------------------- MODULE Spec2Model ----------------------------
(***************************************************************************)
(* Model of the CIE CPU simulator's two-pass assembler stepper             *)
(* (src/assembler/assembler.py) over the instruction catalogue of          *)
(* src/common/instructions.py.                                             *)
(*                                                                         *)
(* A source line is a sequence of one-character strings; the string        *)
(* operations of the code (split, strip, upper, startswith, int) are       *)
(* computed on those sequences.  Python's None is NoneTok for text values, *)
(* NoneInt for integers and NoneMsg for messages.                          *)
(*                                                                         *)
(* The CPU (src/cpu/cpu.py, src/simulator) is in cpus, and unit is the one *)
(* object that a specification follows outside the CPUs: a register, a RAM *)
(* with its address port, the observer of a run, or the application of     *)
(* src/CIE_CPU_Sim.py.                                                     *)
(***************************************************************************)
EXTENDS Integers, Sequences, FiniteSets, TLC

VARIABLES asm, last, calls, cpus, CYCLE_PHASES, unit

vars == <<asm, last, calls, cpus, CYCLE_PHASES, unit>>

-----------------------------------------------------------------------------
(* Bounds of the model.                                                    *)

\* Longest source program (raw lines) the model assembles.
MaxLines == 3

-----------------------------------------------------------------------------
(* Python values.                                                          *)

NoneTok == <<"None">>
NoneInt == -1
NoneMsg == "None"

\* No component object apart from those of the CPUs.
NoUnit == [name |-> NoneMsg]

WHITESPACE == {" "}

RECURSIVE Str(_)
\* The text of a character sequence as one string.
Str(cs) == IF cs = <<>> THEN "" ELSE Head(cs) \o Str(Tail(cs))

LowerChars == <<"a","b","c","d","e","f","g","h","i","j","k","l","m",
                "n","o","p","q","r","s","t","u","v","w","x","y","z">>
UpperChars == <<"A","B","C","D","E","F","G","H","I","J","K","L","M",
                "N","O","P","Q","R","S","T","U","V","W","X","Y","Z">>

\* str.upper() on one character.
UpperChar(c) ==
    IF \E i \in 1..Len(LowerChars) : LowerChars[i] = c
    THEN UpperChars[CHOOSE i \in 1..Len(LowerChars) : LowerChars[i] = c]
    ELSE c

\* str.upper()
Upper(cs) == [i \in 1..Len(cs) |-> UpperChar(cs[i])]

RECURSIVE LStrip(_)
LStrip(cs) ==
    IF cs # <<>> /\ Head(cs) \in WHITESPACE THEN LStrip(Tail(cs)) ELSE cs

RECURSIVE RStrip(_)
RStrip(cs) ==
    IF cs # <<>> /\ cs[Len(cs)] \in WHITESPACE
    THEN RStrip(SubSeq(cs, 1, Len(cs) - 1))
    ELSE cs

\* str.strip()
Strip(cs) == RStrip(LStrip(cs))

\* sep in s
Contains(cs, sep) == \E i \in 1..Len(cs) : cs[i] = sep

\* Index of the first occurrence of sep in cs (cs contains sep).
FirstIndex(cs, sep) ==
    CHOOSE i \in 1..Len(cs) :
        cs[i] = sep /\ \A j \in 1..(i - 1) : cs[j] # sep

\* s.split(sep, 1)[0]
SplitHead(cs, sep) ==
    IF Contains(cs, sep) THEN SubSeq(cs, 1, FirstIndex(cs, sep) - 1) ELSE cs

\* s.split(sep, 1)[1], for s containing sep
SplitRest(cs, sep) == SubSeq(cs, FirstIndex(cs, sep) + 1, Len(cs))

RECURSIVE SplitWords(_)
\* s.split(): the maximal runs of non-whitespace characters, in order.
SplitWords(cs) ==
    LET s == LStrip(cs) IN
    IF s = <<>> THEN <<>>
    ELSE LET n == IF \E i \in 1..Len(s) : s[i] \in WHITESPACE
                  THEN (CHOOSE i \in 1..Len(s) :
                            s[i] \in WHITESPACE
                            /\ \A j \in 1..(i - 1) : s[j] \notin WHITESPACE) - 1
                  ELSE Len(s)
         IN <<SubSeq(s, 1, n)>> \o SplitWords(SubSeq(s, n + 1, Len(s)))

\* s.startswith(c) for a one-character prefix c
StartsWith(cs, c) == cs # <<>> /\ Head(cs) = c

\* s.startswith(("#", "B", "&"))
StartsWithLiteralPrefix(cs) ==
    StartsWith(cs, "#") \/ StartsWith(cs, "B") \/ StartsWith(cs, "&")

RECURSIVE Join(_, _)
\* sep.join(lines)
Join(lines, sep) ==
    IF lines = <<>> THEN <<>>
    ELSE IF Len(lines) = 1 THEN lines[1]
    ELSE lines[1] \o <<sep>> \o Join(Tail(lines), sep)

-----------------------------------------------------------------------------
(* int(text, base): the value, or ValueError for an invalid literal.       *)

DigitChars == <<"0","1","2","3","4","5","6","7","8","9",
                "a","b","c","d","e","f">>
DigitCharsUpper == <<"0","1","2","3","4","5","6","7","8","9",
                     "A","B","C","D","E","F">>

IsDigit(c, base) ==
    \E i \in 1..base : DigitChars[i] = c \/ DigitCharsUpper[i] = c

DigitValue(c) ==
    (CHOOSE i \in 1..Len(DigitChars) :
         DigitChars[i] = c \/ DigitCharsUpper[i] = c) - 1

RECURSIVE DigitsValue(_, _, _)
DigitsValue(cs, base, acc) ==
    IF cs = <<>> THEN acc
    ELSE IF Head(cs) = "_" THEN DigitsValue(Tail(cs), base, acc)
    ELSE DigitsValue(Tail(cs), base, acc * base + DigitValue(Head(cs)))

\* Digits of the base, single underscores allowed between two digits only.
WellFormedDigits(cs, base) ==
    /\ cs # <<>>
    /\ \A i \in 1..Len(cs) : cs[i] = "_" \/ IsDigit(cs[i], base)
    /\ cs[1] # "_"
    /\ cs[Len(cs)] # "_"
    /\ \A i \in 1..(Len(cs) - 1) : ~(cs[i] = "_" /\ cs[i + 1] = "_")

HasBasePrefix(cs, base) ==
    /\ Len(cs) >= 2
    /\ cs[1] = "0"
    /\ \/ base = 16 /\ cs[2] \in {"x", "X"}
       \/ base = 2 /\ cs[2] \in {"b", "B"}

ValueError == "ValueError"

\* int() on the text that follows the sign.
ParseMagnitude(body, base) ==
    LET \* "0x" / "0b" may precede the digits, followed by at most one "_"
        pre    == HasBasePrefix(body, base)
        afterp == IF pre THEN SubSeq(body, 3, Len(body)) ELSE body
        digits == IF pre /\ afterp # <<>> /\ Head(afterp) = "_"
                  THEN Tail(afterp) ELSE afterp
        \* without the prefix reading, "0b1" is still three hex digits
        plainOk == WellFormedDigits(body, base)
        preOk   == pre /\ WellFormedDigits(digits, base)
    IN IF plainOk THEN [ok |-> TRUE, value |-> DigitsValue(body, base, 0)]
       ELSE IF preOk THEN [ok |-> TRUE, value |-> DigitsValue(digits, base, 0)]
       ELSE [ok |-> FALSE, value |-> 0]

\* The result of int() on a text with a leading "-".
Negated(n) == IF n.ok THEN [ok |-> TRUE, value |-> 0 - n.value] ELSE n

\* int() on a text without surrounding whitespace.
ParseStripped(t, base) ==
    IF t # <<>> /\ Head(t) = "-" THEN Negated(ParseMagnitude(Tail(t), base))
    ELSE IF t # <<>> /\ Head(t) = "+" THEN ParseMagnitude(Tail(t), base)
    ELSE ParseMagnitude(t, base)

\* int(cs, base): [ok |-> TRUE, value |-> n] or [ok |-> FALSE].
ParseInt(cs, base) == ParseStripped(Strip(cs), base)

-----------------------------------------------------------------------------
(* The instruction catalogue, in registry order.                           *)

IMMEDIATE == "immediate"
DIRECT    == "direct"
INDIRECT  == "indirect"
REGISTER  == "register"
INDEXED   == "indexed"
NONE      == "none"

InstructionDefinition(m, op, mode, long) ==
    [mnemonic |-> m, opcode |-> op, addressing_mode |-> mode,
     long_operand |-> long]

instruction_set ==
    << InstructionDefinition("LDM", 0, IMMEDIATE, TRUE),
       InstructionDefinition("LDD", 1, DIRECT, TRUE),
       InstructionDefinition("LDI", 2, INDIRECT, TRUE),
       InstructionDefinition("LDX", 3, INDEXED, TRUE),
       InstructionDefinition("LDR", 4, IMMEDIATE, TRUE),
       InstructionDefinition("MOV", 5, REGISTER, FALSE),
       InstructionDefinition("STO", 6, DIRECT, TRUE),
       InstructionDefinition("ADD", 7, DIRECT, TRUE),
       InstructionDefinition("ADD", 8, IMMEDIATE, TRUE),
       InstructionDefinition("SUB", 9, DIRECT, TRUE),
       InstructionDefinition("SUB", 10, IMMEDIATE, TRUE),
       InstructionDefinition("INC", 11, REGISTER, FALSE),
       InstructionDefinition("DEC", 12, REGISTER, FALSE),
       InstructionDefinition("JMP", 13, IMMEDIATE, TRUE),
       InstructionDefinition("CMP", 14, DIRECT, TRUE),
       InstructionDefinition("CMP", 15, IMMEDIATE, TRUE),
       InstructionDefinition("CMI", 16, INDIRECT, TRUE),
       InstructionDefinition("JPE", 17, IMMEDIATE, TRUE),
       InstructionDefinition("JPN", 18, IMMEDIATE, TRUE),
       InstructionDefinition("IN", 19, NONE, FALSE),
       InstructionDefinition("OUT", 20, NONE, FALSE),
       InstructionDefinition("END", 21, NONE, FALSE),
       InstructionDefinition("AND", 22, IMMEDIATE, TRUE),
       InstructionDefinition("AND", 23, DIRECT, TRUE),
       InstructionDefinition("XOR", 24, IMMEDIATE, TRUE),
       InstructionDefinition("XOR", 25, DIRECT, TRUE),
       InstructionDefinition("OR", 26, IMMEDIATE, TRUE),
       InstructionDefinition("OR", 27, DIRECT, TRUE),
       InstructionDefinition("LSL", 28, IMMEDIATE, FALSE),
       InstructionDefinition("LSR", 29, IMMEDIATE, FALSE),
       InstructionDefinition("STI", 30, INDIRECT, TRUE),
       InstructionDefinition("STX", 31, INDEXED, TRUE) >>

\* All definitions whose mnemonic is the given text, in registry order.
get_instruction_by_mnemonic(mnemonic) ==
    LET Matches(d) == d.mnemonic = Str(mnemonic)
    IN SelectSeq(instruction_set, Matches)

\* Register names accepted as operands, with their index.
RegisterIndex ==
    [ACC |-> 0, IX |-> 1, PC |-> 2, MAR |-> 3, MDR |-> 4, CIR |-> 5]

-----------------------------------------------------------------------------
(* Parsing one trimmed line (pass 1).                                      *)

ParsingResult(instruction_address, variable_address) ==
    [instruction_address   |-> instruction_address,
     variable_address      |-> variable_address,
     mnemonic              |-> NoneTok,
     operand_token         |-> NoneTok,
     new_instruction_label |-> NoneTok,
     new_variable_label    |-> NoneTok,
     next_address          |-> 0,
     next_variable_address |-> 0]

\* A call that returned a value, and one that raised AssemblingError(message).
Returned(v) == [ok |-> TRUE, value |-> v, message |-> NoneMsg]
Raised(m)   == [ok |-> FALSE, value |-> <<>>, message |-> m]

UnknownMnemonicMessage(mnemonic) ==
    "Unknown instruction mnemonic '" \o Str(mnemonic) \o "'."

\* NextAddressAfter reserving one address whatever the operand length.
NextAddressAfterOneWord(instruction_def, instruction_address) ==
    instruction_address + 1

\* The address after an instruction line with an operand token.
NextAddressAfter(instruction_def, instruction_address) ==
    IF instruction_def.long_operand
    THEN instruction_address + 2
    ELSE instruction_address + 1

_parse_line(line, instruction_address, variable_address) ==
    LET result == ParsingResult(instruction_address, variable_address) IN
    IF Contains(line, ":")
    THEN
        LET label        == Upper(Strip(SplitHead(line, ":")))
            rest_of_line == Strip(SplitRest(line, ":"))
            words        == SplitWords(rest_of_line)
        IN
        IF rest_of_line = <<>> \/ Len(words) \notin {1, 2}
        THEN Raised("In " \o Str(line) \o ": Label '" \o Str(label)
                    \o "' must be followed by an instruction or immediate value.\n"
                    \o "correct formats:\n"
                    \o "- <LABEL>: <MNEMONIC> <OPERAND>\n"
                    \o "- <LABEL>: <IMMEDIATE VALUE>")
        ELSE IF Len(words) = 2
        THEN \* label followed by instruction
            LET instruction_def == get_instruction_by_mnemonic(words[1]) IN
            IF instruction_def = <<>>
            THEN Raised(UnknownMnemonicMessage(words[1]))
            ELSE Returned([result EXCEPT
                     !.new_instruction_label = label,
                     !.mnemonic = words[1],
                     !.operand_token = words[2],
                     !.instruction_address = instruction_address,
                     !.next_address =
                         NextAddressAfter(instruction_def[1], instruction_address)])
        ELSE IF Str(rest_of_line) \in {"IN", "OUT", "END"}
        THEN \* label followed by instruction without operand
            Returned([result EXCEPT
                !.new_instruction_label = label,
                !.mnemonic = rest_of_line,
                !.instruction_address = instruction_address,
                !.next_address = instruction_address + 1])
        ELSE \* label followed by immediate value
            IF ~StartsWithLiteralPrefix(rest_of_line)
            THEN Raised("Invalid immediate value '" \o Str(rest_of_line)
                        \o "'. Immediate values must start with '#', 'B', or '&'.")
            ELSE Returned([result EXCEPT
                     !.new_variable_label = label,
                     !.operand_token = rest_of_line,
                     !.variable_address = variable_address,
                     !.next_variable_address = variable_address + 1])
    ELSE \* no label present
        LET parts == SplitWords(line) IN
        IF Len(parts) = 1
        THEN \* instruction without operand
            IF get_instruction_by_mnemonic(parts[1]) = <<>>
            THEN Raised(UnknownMnemonicMessage(parts[1]))
            ELSE Returned([result EXCEPT
                     !.mnemonic = parts[1],
                     !.next_address = instruction_address + 1])
        ELSE IF Len(parts) = 2
        THEN \* instruction with operand
            LET instruction_def == get_instruction_by_mnemonic(parts[1]) IN
            IF instruction_def = <<>>
            THEN Raised(UnknownMnemonicMessage(parts[1]))
            ELSE Returned([result EXCEPT
                     !.mnemonic = parts[1],
                     !.operand_token = parts[2],
                     !.next_address =
                         NextAddressAfter(instruction_def[1], instruction_address)])
        ELSE Raised("Invalid line format: '" \o Str(line) \o "'.")

-----------------------------------------------------------------------------
(* Emitting the words of one parsing record (pass 2).                      *)

OxFFFF == 65535

\* word & 0xFFFF
Mask16(word) == word % (OxFFFF + 1)

\* The three ways a pass-2 helper ends: a value, AssemblingError(message),
\* or the ValueError of int() on an invalid literal.
Resolved(v, looked_at_instruction, looked_at_variable) ==
    [kind |-> "ok", value |-> v, message |-> NoneMsg,
     looked_at_instruction |-> looked_at_instruction,
     looked_at_variable |-> looked_at_variable]
AssemblingError(m) ==
    [kind |-> "AssemblingError", value |-> 0, message |-> m,
     looked_at_instruction |-> NoneTok, looked_at_variable |-> NoneTok]
InvalidLiteral ==
    [kind |-> ValueError, value |-> 0, message |-> NoneMsg,
     looked_at_instruction |-> NoneTok, looked_at_variable |-> NoneTok]

\* The base of a literal, by its first character.
LiteralBase(token) ==
    IF StartsWith(token, "#") THEN 10
    ELSE IF StartsWith(token, "B") THEN 2
    ELSE 16

RegisterNames == {"ACC", "IX", "PC", "MAR", "MDR", "CIR"}

_operand_to_int(operand_token, instruction_labels, variable_labels) ==
    LET InRange(r) ==
            IF ~(0 <= r.value /\ r.value <= OxFFFF)
            THEN AssemblingError("Operand value '" \o ToString(r.value)
                                 \o "' out of range (0 to 65535).")
            ELSE r
        \* value = int(operand_token[1:], base)
        Literal(n) ==
            IF ~n.ok THEN InvalidLiteral
            ELSE InRange(Resolved(n.value, NoneTok, NoneTok))
    IN
    IF operand_token = NoneTok
    THEN AssemblingError("Operand is missing.")
    ELSE IF StartsWithLiteralPrefix(operand_token)
    THEN Literal(ParseInt(Tail(operand_token), LiteralBase(operand_token)))
    ELSE IF operand_token \in DOMAIN instruction_labels
    THEN InRange(Resolved(instruction_labels[operand_token],
                          operand_token, NoneTok))
    ELSE IF operand_token \in DOMAIN variable_labels
    THEN InRange(Resolved(variable_labels[operand_token],
                          NoneTok, operand_token))
    ELSE IF Str(operand_token) \in RegisterNames
    THEN InRange(Resolved(RegisterIndex[Str(operand_token)], NoneTok, NoneTok))
    ELSE AssemblingError("Unknown operand or label '" \o Str(operand_token) \o "'.")

\* SelectDefinition without the tie-break: the first definition.
SelectFirstDefinition(instruction_defs, operand_token) == instruction_defs[1]

\* The definition pass 2 selects among those sharing a mnemonic.
SelectDefinition(instruction_defs, operand_token) ==
    IF Len(instruction_defs) > 1
    THEN IF StartsWithLiteralPrefix(operand_token)
         THEN IF \E i \in 1..Len(instruction_defs) :
                     instruction_defs[i].addressing_mode = IMMEDIATE
              THEN instruction_defs[
                       CHOOSE i \in 1..Len(instruction_defs) :
                           /\ instruction_defs[i].addressing_mode = IMMEDIATE
                           /\ \A j \in 1..(i - 1) :
                                  instruction_defs[j].addressing_mode # IMMEDIATE]
              ELSE instruction_defs[1]
         ELSE IF \E i \in 1..Len(instruction_defs) :
                     instruction_defs[i].addressing_mode # IMMEDIATE
              THEN instruction_defs[
                       CHOOSE i \in 1..Len(instruction_defs) :
                           /\ instruction_defs[i].addressing_mode # IMMEDIATE
                           /\ \A j \in 1..(i - 1) :
                                  instruction_defs[j].addressing_mode = IMMEDIATE]
              ELSE instruction_defs[1]
    ELSE instruction_defs[1]

\* The first word of a short-operand instruction.
ShortInstructionWord(opcode, operand) == Mask16(opcode * 256 + operand)

\* value: the list of emitted words.
_create_instruction_from_parsing_result(parsing_result, instruction_labels, variable_labels) ==
    LET operand_token == parsing_result.operand_token
        mnemonic      == parsing_result.mnemonic
        \* value = int(operand_token[1:], base), then the range check
        VariableWord(n) ==
            IF ~n.ok THEN InvalidLiteral
            ELSE IF ~(0 <= n.value /\ n.value <= OxFFFF)
            THEN AssemblingError("Immediate value '" \o ToString(n.value)
                                 \o "' out of range (0 to 65535).")
            ELSE Resolved(<<Mask16(n.value)>>, NoneTok,
                          parsing_result.new_variable_label)
        \* the words of an instruction with its operand resolved
        WithOperand(instruction_def, operand) ==
            IF operand.kind # "ok" THEN operand
            ELSE IF ~instruction_def.long_operand
            THEN Resolved(<<ShortInstructionWord(instruction_def.opcode,
                                                 operand.value)>>,
                          operand.looked_at_instruction,
                          operand.looked_at_variable)
            ELSE Resolved(<<Mask16(instruction_def.opcode * 256),
                            Mask16(operand.value)>>,
                          operand.looked_at_instruction,
                          operand.looked_at_variable)
        \* the words of an instruction of the selected definition
        WithDefinition(instruction_def) ==
            IF instruction_def.addressing_mode = NONE
            THEN Resolved(<<Mask16(instruction_def.opcode * 256)>>,
                          NoneTok, NoneTok)
            ELSE WithOperand(instruction_def,
                             _operand_to_int(operand_token, instruction_labels,
                                             variable_labels))
        \* instruction_defs = get_instruction_by_mnemonic(mnemonic)
        WithDefinitions(instruction_defs) ==
            IF instruction_defs = <<>>
            THEN AssemblingError(UnknownMnemonicMessage(mnemonic))
            ELSE IF Len(instruction_defs) > 1 /\ operand_token = NoneTok
            THEN AssemblingError("Ambiguous instruction '" \o Str(mnemonic)
                                 \o "' requires an operand.")
            ELSE WithDefinition(SelectDefinition(instruction_defs, operand_token))
    IN
    IF parsing_result.new_variable_label # NoneTok
    THEN \* variable definition
        IF operand_token = NoneTok
        THEN AssemblingError("Variable definition missing value.")
        ELSE IF ~StartsWithLiteralPrefix(operand_token)
        THEN AssemblingError("Invalid immediate value '" \o Str(operand_token)
                 \o "'. Immediate values must start with '#', 'B', or '&'.")
        ELSE VariableWord(ParseInt(Tail(operand_token),
                                   LiteralBase(operand_token)))
    ELSE IF mnemonic = NoneTok
    THEN AssemblingError("Instruction mnemonic is missing.")
    ELSE WithDefinitions(get_instruction_by_mnemonic(mnemonic))

-----------------------------------------------------------------------------
(* The stepper: its state, its snapshots, one handler per phase.           *)

PHASE_TRIM                    == "TRIM"
PHASE_PASS1_SCAN              == "PASS1_SCAN"
PHASE_PASS1_FINALISE          == "PASS1_FINALISE"
PHASE_PASS2_EMIT_INSTRUCTIONS == "PASS2_EMIT_INSTRUCTIONS"
PHASE_PASS2_EMIT_VARIABLES    == "PASS2_EMIT_VARIABLES"
PHASE_DONE                    == "DONE"
PHASE_ERROR                   == "ERROR"

\* An empty dict.
EmptyDict == <<>>

\* d[key] = value
DictSet(d, key, value) == (key :> value) @@ d

Max(a, b) == IF a >= b THEN a ELSE b

\* AssemblerStepper.__init__
AssemblerStepper(source_lines) ==
    [raw_lines                  |-> source_lines,
     trimmed_lines              |-> <<>>,
     trim_index                 |-> 0,
     phase                      |-> PHASE_TRIM,
     instruction_address        |-> 0,
     variable_address           |-> 0,
     parsing_results            |-> <<>>,
     instruction_labels         |-> EmptyDict,
     variable_labels_relative   |-> EmptyDict,
     variable_labels_final      |-> EmptyDict,
     pass1_index                |-> 0,
     instructions_end_address   |-> 0,
     pass2_instruction_results  |-> <<>>,
     pass2_variable_results     |-> <<>>,
     pass2_index                |-> 0,
     emitted_words              |-> <<>>,
     error_message              |-> NoneMsg]

RamWrite(address, value) == [address |-> address, value |-> value]

\* message or self._error_message
MessageOr(message, error_message) ==
    IF message # NoneMsg /\ message # "" THEN message ELSE error_message

_snapshot(self, current_line_text, ram_writes, cursor_row, editor_text, highlight_instruction_label, highlight_variable_label, message) ==
    [phase              |-> self.phase,
     pass_number        |-> IF self.phase = PHASE_TRIM THEN 0
                            ELSE IF self.phase \in {PHASE_PASS1_SCAN,
                                                    PHASE_PASS1_FINALISE}
                            THEN 1 ELSE 2,
     current_line_index |-> IF self.phase = PHASE_TRIM THEN self.trim_index
                            ELSE IF self.phase \in {PHASE_PASS1_SCAN,
                                                    PHASE_PASS1_FINALISE}
                            THEN self.pass1_index ELSE self.pass2_index,
     current_line_text  |-> current_line_text,
     cursor_row         |-> cursor_row,
     instruction_address |-> self.instruction_address,
     variable_address   |-> self.variable_address,
     instruction_labels |-> self.instruction_labels,
     variable_labels    |-> IF DOMAIN self.variable_labels_final # {}
                            THEN self.variable_labels_final
                            ELSE self.variable_labels_relative,
     highlight_instruction_label |-> highlight_instruction_label,
     highlight_variable_label    |-> highlight_variable_label,
     emitted_words      |-> self.emitted_words,
     ram_writes         |-> ram_writes,
     editor_text        |-> editor_text,
     message            |-> MessageOr(message, self.error_message)]

\* What one handler call does: the stepper afterwards and the snapshot it
\* returns, or the exception it raises ("AssemblingError" with its message,
\* or ValueError).
Return(self, snapshot) ==
    [raised |-> "None", message |-> NoneMsg, self |-> self, snapshot |-> snapshot]
Raise(kind, message, self) ==
    [raised |-> kind, message |-> message, self |-> self, snapshot |-> <<>>]

\* raw_line.split(";", 1)[0].strip()
TrimLine(raw_line) == Strip(SplitHead(raw_line, ";"))

_step_trim(self) ==
    IF self.trim_index >= Len(self.raw_lines)
    THEN LET s == [self EXCEPT !.phase = PHASE_PASS1_SCAN] IN
         Return(s, _snapshot(s, NoneTok, <<>>, NoneInt,
                             Join(s.trimmed_lines, "\n"),
                             NoneTok, NoneTok, "Trim complete."))
    ELSE
        LET raw_line == self.raw_lines[self.trim_index + 1]
            trimmed  == TrimLine(raw_line)
            kept     == IF trimmed # <<>>
                        THEN Append(self.trimmed_lines, trimmed)
                        ELSE self.trimmed_lines
            cursor_row == IF trimmed # <<>>
                          THEN Max(0, Len(kept) - 1)
                          ELSE Len(kept)
            s == [self EXCEPT !.trimmed_lines = kept,
                              !.trim_index = self.trim_index + 1]
        IN Return(s, _snapshot(s, raw_line, <<>>, cursor_row,
                      Join(kept \o SubSeq(s.raw_lines, s.trim_index + 1,
                                          Len(s.raw_lines)), "\n"),
                      NoneTok, NoneTok, "Trimming source..."))

\* Python truth of an optional label: neither None nor empty.
Truthy(label) == label # NoneTok /\ label # <<>>

\* AdvanceCounters moving to the next line without advancing the addresses.
AdvanceIndexOnly(self, parsing_result) ==
    [self EXCEPT !.pass1_index = self.pass1_index + 1]

\* The counters pass 1 carries on to the next line.
AdvanceCounters(self, parsing_result) ==
    [self EXCEPT !.instruction_address = parsing_result.next_address,
                 !.variable_address = parsing_result.next_variable_address,
                 !.pass1_index = self.pass1_index + 1]

\* What _step_pass1_scan does with the outcome of _parse_line on the line.
RecordParsed(self, line, parsed) ==
    IF ~parsed.ok
    THEN Raise("AssemblingError", parsed.message, self)
    ELSE
        LET parsing_result == parsed.value
            il == IF Truthy(parsing_result.new_instruction_label)
                  THEN DictSet(self.instruction_labels,
                               parsing_result.new_instruction_label,
                               self.instruction_address)
                  ELSE self.instruction_labels
            vl == IF Truthy(parsing_result.new_variable_label)
                  THEN DictSet(self.variable_labels_relative,
                               parsing_result.new_variable_label,
                               self.variable_address)
                  ELSE self.variable_labels_relative
            s  == AdvanceCounters(
                      [self EXCEPT
                          !.parsing_results =
                              Append(self.parsing_results, parsing_result),
                          !.instruction_labels = il,
                          !.variable_labels_relative = vl],
                      parsing_result)
        IN Return(s, _snapshot(s, line, <<>>, Max(0, s.pass1_index - 1), NoneTok,
                      IF Truthy(parsing_result.new_instruction_label)
                      THEN parsing_result.new_instruction_label ELSE NoneTok,
                      IF Truthy(parsing_result.new_variable_label)
                      THEN parsing_result.new_variable_label ELSE NoneTok,
                      "Pass 1: scanning..."))

_step_pass1_scan(self) ==
    IF self.pass1_index >= Len(self.trimmed_lines)
    THEN LET s == [self EXCEPT !.phase = PHASE_PASS1_FINALISE] IN
         Return(s, _snapshot(s, NoneTok, <<>>, NoneInt, NoneTok,
                             NoneTok, NoneTok, "Pass 1 complete."))
    ELSE
        LET line == self.trimmed_lines[self.pass1_index + 1] IN
        RecordParsed(self, line,
                     _parse_line(line, self.instruction_address,
                                 self.variable_address))

RECURSIVE EndFound(_)
\* The check made from the last parsing record backwards: it stops at the
\* first record that has a mnemonic.
EndFound(parsing_results) ==
    IF parsing_results = <<>> THEN FALSE
    ELSE LET parsing_result == parsing_results[Len(parsing_results)] IN
         IF parsing_result.mnemonic # NoneTok
         THEN Str(parsing_result.mnemonic) = "END"
         ELSE EndFound(SubSeq(parsing_results, 1, Len(parsing_results) - 1))

\* The final address of every variable label.
FinalVariableLabels(variable_labels_relative, instructions_end_address) ==
    [label \in DOMAIN variable_labels_relative |->
        instructions_end_address + variable_labels_relative[label]]

_step_pass1_finalise(self) ==
    IF ~EndFound(self.parsing_results)
    THEN Raise("AssemblingError", "Program must include END instruction.", self)
    ELSE
        LET IsInstruction(result) == result.new_variable_label = NoneTok
            IsVariable(result)    == result.new_variable_label # NoneTok
            s == [self EXCEPT
                    !.instructions_end_address = self.instruction_address,
                    !.variable_labels_final =
                        FinalVariableLabels(self.variable_labels_relative,
                                            self.instruction_address),
                    !.pass2_instruction_results =
                        SelectSeq(self.parsing_results, IsInstruction),
                    !.pass2_variable_results =
                        SelectSeq(self.parsing_results, IsVariable),
                    !.pass2_index = 0,
                    !.emitted_words = <<>>,
                    !.phase = PHASE_PASS2_EMIT_INSTRUCTIONS]
        IN Return(s, _snapshot(s, NoneTok, <<>>, Max(0, s.pass1_index - 1),
                      NoneTok, NoneTok, NoneTok,
                      "Pass 1 finalised. Starting pass 2..."))

\* InstructionsExhausted with the variables forgotten: straight on to DONE.
InstructionsExhaustedToDone(self) ==
    [self EXCEPT !.phase = PHASE_DONE, !.pass2_index = 0]

\* The stepper once the instruction records are exhausted.
InstructionsExhausted(self) ==
    [self EXCEPT !.phase = PHASE_PASS2_EMIT_VARIABLES, !.pass2_index = 0]

\* What _step_pass2_emit_instructions does with the words created for the
\* record.
EmitInstruction(self, parsing_result, created) ==
    IF created.kind # "ok"
    THEN Raise(created.kind, created.message, self)
    ELSE
        LET instruction_offset == Len(self.pass2_variable_results)
            words        == created.value
            base_address == parsing_result.instruction_address
            ram_writes   == [i \in 1..Len(words) |->
                                RamWrite(base_address + (i - 1), Mask16(words[i]))]
            s == [self EXCEPT
                    !.emitted_words = self.emitted_words \o
                        [i \in 1..Len(words) |-> Mask16(words[i])],
                    !.pass2_index = self.pass2_index + 1]
        IN Return(s, _snapshot(s, parsing_result.mnemonic, ram_writes,
                      Max(0, s.pass2_index - 1 + instruction_offset), NoneTok,
                      created.looked_at_instruction, created.looked_at_variable,
                      "Pass 2: emitting instructions..."))

_step_pass2_emit_instructions(self) ==
    LET instruction_offset == Len(self.pass2_variable_results) IN
    IF self.pass2_index >= Len(self.pass2_instruction_results)
    THEN LET s == InstructionsExhausted(self) IN
         Return(s, _snapshot(s, NoneTok, <<>>,
                      Max(0, s.pass2_index - 1 + instruction_offset),
                      NoneTok, NoneTok, NoneTok,
                      "Instructions emitted. Emitting variables..."))
    ELSE
        LET parsing_result == self.pass2_instruction_results[self.pass2_index + 1]
        IN EmitInstruction(self, parsing_result,
               _create_instruction_from_parsing_result(
                   parsing_result, self.instruction_labels,
                   self.variable_labels_final))

\* What _step_pass2_emit_variables does with the word created for the record.
EmitVariable(self, parsing_result, created) ==
    IF created.kind # "ok"
    THEN Raise(created.kind, created.message, self)
    ELSE
        LET address == self.instructions_end_address
                           + parsing_result.variable_address
            value   == Mask16(created.value[1])
            s == [self EXCEPT
                    !.emitted_words = Append(self.emitted_words, value),
                    !.pass2_index = self.pass2_index + 1]
        IN Return(s, _snapshot(s, parsing_result.new_variable_label,
                      <<RamWrite(address, value)>>,
                      Max(0, s.pass2_index - 1), NoneTok, NoneTok,
                      parsing_result.new_variable_label,
                      "Pass 2: emitting variables..."))

_step_pass2_emit_variables(self) ==
    IF self.pass2_index >= Len(self.pass2_variable_results)
    THEN LET s == [self EXCEPT !.phase = PHASE_DONE] IN
         Return(s, _snapshot(s, NoneTok, <<>>, Max(0, s.pass2_index - 1),
                      NoneTok, NoneTok, NoneTok, "Assembling complete."))
    ELSE
        LET parsing_result == self.pass2_variable_results[self.pass2_index + 1]
        IN EmitVariable(self, parsing_result,
               _create_instruction_from_parsing_result(
                   parsing_result, self.instruction_labels,
                   self.variable_labels_final))

\* The handler of the current phase.
Dispatch(self) ==
    IF self.phase = PHASE_TRIM THEN _step_trim(self)
    ELSE IF self.phase = PHASE_PASS1_SCAN THEN _step_pass1_scan(self)
    ELSE IF self.phase = PHASE_PASS1_FINALISE THEN _step_pass1_finalise(self)
    ELSE IF self.phase = PHASE_PASS2_EMIT_INSTRUCTIONS
    THEN _step_pass2_emit_instructions(self)
    ELSE IF self.phase = PHASE_PASS2_EMIT_VARIABLES
    THEN _step_pass2_emit_variables(self)
    ELSE \* no handler: step falls through to its internal-error exit
        Raise("AssemblingError", "Internal assembler state error.", self)

\* IsFinished with DONE left out of the early return.
IsFinishedErrorOnly(self) == self.phase = PHASE_ERROR

\* Whether step returns at once, without dispatching.
IsFinished(self) == self.phase \in {PHASE_DONE, PHASE_ERROR}

\* AssemblerStepper.step: an AssemblingError of the handler becomes phase
\* ERROR and a snapshot; any other exception leaves step.
step(self) ==
    LET \* except AssemblingError as exc: ...
        Contained(handled) ==
            IF handled.raised = "AssemblingError"
            THEN LET s == [self EXCEPT !.phase = PHASE_ERROR,
                                       !.error_message = handled.message] IN
                 Return(s, _snapshot(s, NoneTok, <<>>, NoneInt, NoneTok,
                                     NoneTok, NoneTok, handled.message))
            ELSE handled
    IN
    IF IsFinished(self)
    THEN Return(self, _snapshot(self, NoneTok, <<>>, NoneInt, NoneTok,
                                NoneTok, NoneTok, NoneMsg))
    ELSE Contained(Dispatch(self))

-----------------------------------------------------------------------------
(* Decoding an instruction word in the control unit.                       *)

\* CU.compute_opcode: binary_instruction >> 8
compute_opcode(binary_instruction) == binary_instruction \div 256

\* The operand CU.set_instruction keeps: instruction & 0b0000000011111111
DecodedOperand(instruction) == instruction % 256

-----------------------------------------------------------------------------
(* Non-interactive use.                                                    *)

RECURSIVE RunLoop(_, _, _)
\* The loop of run_to_completion with `remaining` iterations left, `made`
\* step calls made so far.
RunLoop(self, remaining, made) ==
    IF remaining = 0
    THEN [raised |-> "AssemblingError",
          message |-> "Assembler did not finish within the step limit.",
          self |-> self, value |-> <<>>, made |-> made]
    ELSE
        LET \* snapshot = self.step(), and what the loop makes of it
            After(r) ==
                IF r.raised # "None"
                THEN [raised |-> r.raised, message |-> r.message,
                      self |-> r.self, value |-> <<>>, made |-> made + 1]
                ELSE IF r.snapshot.phase = PHASE_ERROR
                THEN [raised |-> "AssemblingError",
                      message |-> MessageOr(r.snapshot.message,
                                            "Assembling failed."),
                      self |-> r.self, value |-> <<>>, made |-> made + 1]
                ELSE IF r.snapshot.phase = PHASE_DONE
                THEN [raised |-> "None", message |-> NoneMsg, self |-> r.self,
                      value |-> r.snapshot.emitted_words, made |-> made + 1]
                ELSE RunLoop(r.self, remaining - 1, made + 1)
        IN After(step(self))

\* AssemblerStepper.run_to_completion(max_steps = max_steps)
run_to_completion(self, max_steps) == RunLoop(self, max_steps, 0)

-----------------------------------------------------------------------------
(* The source programs of the model.                                       *)

\* 'END'
LineEnd == <<"E","N","D">>
\* 'OUT ;c'
LineOutComment == <<"O","U","T"," ",";","c">>
\* ';c'
LineComment == <<";","c">>
\* 'LDM #1'
LineLdm == <<"L","D","M"," ","#","1">>
\* 'X: #5'
LineVarX == <<"X",":"," ","#","5">>
\* 'LDD X'
LineLddX == <<"L","D","D"," ","X">>
\* 'JMP BOB'
LineJmpBob == <<"J","M","P"," ","B","O","B">>
\* 'bob: END'
LineBobEnd == <<"b","o","b",":"," ","E","N","D">>
\* 'LDM #x'
LineLdmBad == <<"L","D","M"," ","#","x">>
\* 'LSL #300'
LineLslBig == <<"L","S","L"," ","#","3","0","0">>
\* 'FOO'
LineFoo == <<"F","O","O">>
\* 'Y: #-1'
LineVarNeg == <<"Y",":"," ","#","-","1">>

\* 'l: OUT'
LineLowerOut == <<"l",":"," ","O","U","T">>
\* 'JMP L'
LineJmpL == <<"J","M","P"," ","L">>

SourceLines ==
    {LineLowerOut, LineJmpL, LineEnd, LineOutComment, LineComment, LineLdm, LineVarX, LineLddX,
     LineJmpBob, LineBobEnd, LineLdmBad, LineLslBig, LineFoo, LineVarNeg}

\* Every program of at most MaxLines raw lines.
Sources == UNION {[1..n -> SourceLines] : n \in 0..MaxLines}

\* Longest source program on which run_to_completion is followed.
MaxRunLines == 2

RunSources == {source_lines \in Sources : Len(source_lines) <= MaxRunLines}

\* Number of step calls the model follows on one stepper.
MaxCalls == 3 * MaxLines + 7

-----------------------------------------------------------------------------
(* The state machine: a stepper and the calls made on it.                  *)
(*   asm    the AssemblerStepper object                                    *)
(*   last   what the last call on it did: its kind, the snapshot or word   *)
(*          list it returned or the exception it raised                    *)
(*   calls  how many times step has been called                            *)

\* A stepper constructed on one of the given programs; no call made yet.
Constructed(programs) ==
    /\ \E source_lines \in programs : asm = AssemblerStepper(source_lines)
    /\ last = [op |-> "new", raised |-> "None", message |-> NoneMsg,
               snapshot |-> <<>>, value |-> <<>>, max_steps |-> 0,
               before |-> PHASE_TRIM]
    /\ calls = 0
    /\ cpus = << >>
    /\ CYCLE_PHASES = 0
    /\ unit = NoUnit

Init == Constructed(Sources)

\* One call of step().
Step ==
    /\ calls < MaxCalls
    /\ \E r \in {step(asm)} :
        /\ asm' = r.self
        /\ last' = [op |-> "step", raised |-> r.raised, message |-> r.message,
                    snapshot |-> r.snapshot, value |-> <<>>, max_steps |-> 0,
                    before |-> asm.phase]
    /\ calls' = calls + 1
    /\ UNCHANGED <<cpus, CYCLE_PHASES, unit>>

\* One call of run_to_completion(max_steps = m).
RunToCompletion ==
    \E m \in 0..(MaxCalls - calls) :
        \E r \in {run_to_completion(asm, m)} :
            /\ asm' = r.self
            /\ last' = [op |-> "run_to_completion", raised |-> r.raised,
                        message |-> r.message, snapshot |-> <<>>,
                        value |-> r.value, max_steps |-> m,
                        before |-> asm.phase]
            /\ calls' = calls + r.made
            /\ UNCHANGED <<cpus, CYCLE_PHASES, unit>>

\* Interactive use: the stepper is advanced by step() alone.
Next == Step

Spec == Init /\ [][Next]_vars

\* Non-interactive use as well: step() and run_to_completion() in any order,
\* on the programs of at most MaxRunLines lines.
InitRun == Constructed(RunSources)

NextRun == Step \/ RunToCompletion

SpecRun == InitRun /\ [][NextRun]_vars

-----------------------------------------------------------------------------
(* What the claims speak of.                                               *)

\* The instruction words of one parsing record, by the catalogue: 2 for a
\* long-operand instruction line, 1 for a short-operand one, 0 for a variable.
WordsOfRecord(r) ==
    IF r.mnemonic = NoneTok THEN 0
    ELSE IF get_instruction_by_mnemonic(r.mnemonic)[1].long_operand THEN 2
    ELSE 1

RECURSIVE WordsBefore(_, _)
\* The instruction words of the first n parsing records.
WordsBefore(records, n) ==
    IF n = 0 THEN 0
    ELSE WordsBefore(records, n - 1) + WordsOfRecord(records[n])

\* No label is declared by two lines of the program.
LabelsDeclaredOnce(records) ==
    \A i, j \in 1..Len(records) :
        i # j =>
            /\ ~(Truthy(records[i].new_instruction_label)
                 /\ records[i].new_instruction_label = records[j].new_instruction_label)
            /\ ~(Truthy(records[i].new_variable_label)
                 /\ records[i].new_variable_label = records[j].new_variable_label)

\* The step call just made ran the handler of this phase.
JustStepped(phase) == last.op = "step" /\ last.before = phase

\* C1: after PASS1_FINALISE has succeeded, the V variable labels have the
\* addresses N, ..., N+V-1, the label of relative slot k having N + k, where N
\* counts the instruction words of the program; no variable address is below N.
\* (Stated for the programs that declare each label once.)
C1_VariableAddressesFollowInstructions ==
    (/\ asm.phase \in {PHASE_PASS2_EMIT_INSTRUCTIONS,
                       PHASE_PASS2_EMIT_VARIABLES, PHASE_DONE}
     /\ LabelsDeclaredOnce(asm.parsing_results))
    => LET N == WordsBefore(asm.parsing_results, Len(asm.parsing_results))
           V == Len(asm.pass2_variable_results)
           final == asm.variable_labels_final
       IN /\ {final[label] : label \in DOMAIN final} = N..(N + V - 1)
          /\ \A label \in DOMAIN final :
                 final[label] = N + asm.variable_labels_relative[label]
          /\ \A k \in 1..V :
                 final[asm.pass2_variable_results[k].new_variable_label]
                     = N + (k - 1)

\* C2: after PASS1_SCAN, the base address of every instruction record, and the
\* address bound to its label, is the number of instruction words of the
\* instruction lines before it, wherever the variable lines stand.
\* (The label part is stated for the programs that declare each label once.)
C2_InstructionAddressesCountWords ==
    asm.phase = PHASE_PASS1_FINALISE
    => \A i \in 1..Len(asm.parsing_results) :
           LET r == asm.parsing_results[i] IN
           r.mnemonic # NoneTok =>
               /\ r.instruction_address = WordsBefore(asm.parsing_results, i - 1)
               /\ (/\ Truthy(r.new_instruction_label)
                   /\ LabelsDeclaredOnce(asm.parsing_results))
                  => asm.instruction_labels[r.new_instruction_label]
                         = WordsBefore(asm.parsing_results, i - 1)

\* C3: no call of step raises; a failure of the assembly leaves the stepper in
\* ERROR with the message in the returned snapshot.
C3_StepNeverRaises ==
    last.op = "step"
    => /\ last.raised = "None"
       /\ asm.phase = PHASE_ERROR => last.snapshot.message # NoneMsg

\* A name of the grammar [A-Za-z_][A-Za-z0-9_]*.
IsLabelName(token) ==
    LET Letter(c) == c = "_" \/ \E i \in 1..Len(UpperChars) :
                                     c = UpperChars[i] \/ c = LowerChars[i]
        Digit(c)  == IsDigit(c, 10)
    IN /\ token # <<>>
       /\ token # NoneTok
       /\ Letter(token[1])
       /\ \A i \in 2..Len(token) : Letter(token[i]) \/ Digit(token[i])

\* The pass-2 step just made worked on an instruction record (it emitted the
\* record, or failed on it).
WorkedOnInstruction ==
    /\ JustStepped(PHASE_PASS2_EMIT_INSTRUCTIONS)
    /\ asm.phase # PHASE_PASS2_EMIT_VARIABLES

\* ... and emitted its words.
EmittedInstruction ==
    /\ WorkedOnInstruction
    /\ last.raised = "None"
    /\ asm.phase = PHASE_PASS2_EMIT_INSTRUCTIONS

\* The record that step worked on.
WorkedRecord ==
    asm.pass2_instruction_results[
        IF EmittedInstruction THEN asm.pass2_index ELSE asm.pass2_index + 1]

\* The definition the catalogue and the tie-break give for that record.
WorkedDefinition ==
    SelectDefinition(get_instruction_by_mnemonic(WorkedRecord.mnemonic),
                     WorkedRecord.operand_token)

\* The operand the emitted words carry: the second word of a long-operand
\* instruction, the low byte of the word of a short-operand one.
EmittedOperand ==
    IF WorkedDefinition.long_operand
    THEN last.snapshot.ram_writes[2].value
    ELSE DecodedOperand(last.snapshot.ram_writes[1].value)

\* C4: in pass 2 an operand token that is a name of the grammar and, put in
\* upper case, names a declared instruction label resolves to the address of
\* that label; one that names a declared variable label resolves to its final
\* address.
C4_LabelOperandResolves ==
    (/\ WorkedOnInstruction
     /\ IsLabelName(WorkedRecord.operand_token)
     /\ WorkedDefinition.addressing_mode # NONE)
    => LET name == Upper(WorkedRecord.operand_token) IN
       /\ name \in DOMAIN asm.instruction_labels
          => /\ EmittedInstruction
             /\ EmittedOperand = asm.instruction_labels[name]
       /\ (/\ name \notin DOMAIN asm.instruction_labels
           /\ name \in DOMAIN asm.variable_labels_final)
          => /\ EmittedInstruction
             /\ EmittedOperand = asm.variable_labels_final[name]

\* C5: the first word emitted for an instruction record has the opcode of the
\* selected definition in bits 15..8 and, in bits 7..0, zero for a NONE-mode or
\* long-operand instruction and the resolved operand for a short-operand one:
\* the control unit's decoding gives back that opcode and that operand.
C5_FirstWordDecodesBack ==
    EmittedInstruction
    => LET word == last.snapshot.ram_writes[1].value
           low8 == IF \/ WorkedDefinition.addressing_mode = NONE
                      \/ WorkedDefinition.long_operand
                   THEN 0
                   ELSE _operand_to_int(WorkedRecord.operand_token,
                                        asm.instruction_labels,
                                        asm.variable_labels_final).value
       IN /\ compute_opcode(word) = WorkedDefinition.opcode
          /\ DecodedOperand(word) = low8

\* The program has a line that is an END instruction.
HasEndInstruction(records) ==
    \E i \in 1..Len(records) :
        records[i].mnemonic # NoneTok /\ Str(records[i].mnemonic) = "END"

\* C6: PASS1_FINALISE ends in ERROR for every program without an END
\* instruction and goes on to PASS2_EMIT_INSTRUCTIONS for every program with
\* one, wherever that END stands among the instruction lines.
C6_FinaliseAcceptsAnyEnd ==
    JustStepped(PHASE_PASS1_FINALISE)
    => IF HasEndInstruction(asm.parsing_results)
       THEN asm.phase = PHASE_PASS2_EMIT_INSTRUCTIONS
       ELSE asm.phase = PHASE_ERROR

PhaseOrder ==
    <<PHASE_TRIM, PHASE_PASS1_SCAN, PHASE_PASS1_FINALISE,
      PHASE_PASS2_EMIT_INSTRUCTIONS, PHASE_PASS2_EMIT_VARIABLES, PHASE_DONE>>

\* q is the phase right after p in the order of the phases.
IsSuccessor(p, q) ==
    \E i \in 1..(Len(PhaseOrder) - 1) : PhaseOrder[i] = p /\ PhaseOrder[i + 1] = q

\* C7: over any sequence of step calls the phase stays, moves to the next
\* phase of TRIM, PASS1_SCAN, PASS1_FINALISE, PASS2_EMIT_INSTRUCTIONS,
\* PASS2_EMIT_VARIABLES, DONE, or moves to ERROR from a phase other than DONE;
\* DONE and ERROR are never left.
C7_PhaseMovesForward ==
    [][ \/ asm'.phase = asm.phase
        \/ /\ asm.phase \notin {PHASE_DONE, PHASE_ERROR}
           /\ \/ IsSuccessor(asm.phase, asm'.phase)
              \/ asm'.phase = PHASE_ERROR ]_vars

\* A program with instructions and a variable was assembled to DONE, and step
\* was called again there.
C7_Witness ==
    /\ JustStepped(PHASE_DONE)
    /\ asm.phase = PHASE_DONE
    /\ asm.pass2_variable_results # <<>>
    /\ Len(asm.pass2_instruction_results) >= 2

\* The raw lines that TRIM keeps.
KeptLines(raw_lines) ==
    {i \in 1..Len(raw_lines) : TrimLine(raw_lines[i]) # <<>>}

\* C8: a source of R raw lines, T of them kept by TRIM, is in DONE or ERROR
\* after R + 2*T + 5 calls of step.
C8_FinishedWithinStepBound ==
    calls >= Len(asm.raw_lines) + 2 * Cardinality(KeptLines(asm.raw_lines)) + 5
    => asm.phase \in {PHASE_DONE, PHASE_ERROR}

\* C9: a step call made in DONE or ERROR changes nothing of the stepper and
\* returns a snapshot without RAM writes, equal to the snapshot of the step
\* call made before it in that phase.
C9_FinishedStepChangesNothing ==
    [][ (asm.phase \in {PHASE_DONE, PHASE_ERROR} /\ last'.op = "step")
        => /\ asm' = asm
           /\ last'.raised = "None"
           /\ last'.snapshot.ram_writes = <<>>
           /\ (JustStepped(asm.phase) /\ last.raised = "None")
              => last'.snapshot = last.snapshot ]_vars

\* Two step calls in a row were made in ERROR, the error being one of pass 2.
C9_Witness ==
    /\ JustStepped(PHASE_ERROR)
    /\ asm.error_message # NoneMsg
    /\ asm.pass2_instruction_results # <<>>
    /\ calls >= Len(asm.raw_lines) + 2 * Cardinality(KeptLines(asm.raw_lines)) + 5

RECURSIVE AfterSteps(_, _)
\* The stepper after k calls of step.
AfterSteps(self, k) ==
    IF k = 0 THEN self ELSE AfterSteps(step(self).self, k - 1)

\* C10: run_to_completion(max_steps) returns the emitted words exactly when
\* the stepper reaches DONE within max_steps step calls, and then the whole
\* list; it raises an assembling error when the stepper reaches ERROR within
\* max_steps calls or when max_steps calls were made without reaching DONE.
C10_RunToCompletionOutcome ==
    [][ last'.op = "run_to_completion"
        => LET max_steps == last'.max_steps
               made      == calls' - calls
               reachesDone  == \E k \in 1..max_steps :
                                   AfterSteps(asm, k).phase = PHASE_DONE
               reachesError == \E k \in 1..max_steps :
                                   AfterSteps(asm, k).phase = PHASE_ERROR
           IN /\ (last'.raised = "None") <=> reachesDone
              /\ last'.raised = "None"
                 => /\ asm'.phase = PHASE_DONE
                    /\ last'.value = asm'.emitted_words
              /\ (reachesError \/ (made = max_steps /\ ~reachesDone))
                 => last'.raised = "AssemblingError" ]_vars

-----------------------------------------------------------------------------
(* Words emitted and addresses reserved.                                   *)

\* The pass-2 step just made emitted the word of a variable record.
EmittedVariable ==
    /\ JustStepped(PHASE_PASS2_EMIT_VARIABLES)
    /\ last.raised = "None"
    /\ asm.phase = PHASE_PASS2_EMIT_VARIABLES

\* The words the catalogue gives the selected definition of a record.
WordsOfDefinition(instruction_def) ==
    IF instruction_def.long_operand THEN 2 ELSE 1

RECURSIVE EmittedCount(_, _)
\* The words pass 2 emits for the first n instruction records.
EmittedCount(records, n) ==
    IF n = 0 THEN 0
    ELSE EmittedCount(records, n - 1)
         + WordsOfDefinition(
               SelectDefinition(get_instruction_by_mnemonic(records[n].mnemonic),
                                records[n].operand_token))

\* C11: an instruction record emits 2 words if its definition has a long
\* operand and 1 word otherwise, at consecutive addresses from its base
\* address, as many words as pass 1 reserved addresses for it (next address
\* minus base address); a variable record emits 1 word; a completed assembly
\* holds exactly these words.
C11_WordsEmittedAsReserved ==
    /\ EmittedInstruction
       => LET ram_writes == last.snapshot.ram_writes IN
          /\ Len(ram_writes) = WordsOfDefinition(WorkedDefinition)
          /\ \A i \in 1..Len(ram_writes) :
                 ram_writes[i].address = WorkedRecord.instruction_address + (i - 1)
          /\ Len(ram_writes)
                 = WorkedRecord.next_address - WorkedRecord.instruction_address
    /\ EmittedVariable => Len(last.snapshot.ram_writes) = 1
    /\ asm.phase = PHASE_DONE
       => Len(asm.emitted_words)
              = EmittedCount(asm.pass2_instruction_results,
                             Len(asm.pass2_instruction_results))
                + Len(asm.pass2_variable_results)

\* An assembly with a long-operand instruction, a short-operand one and a
\* variable has just been completed.
C11_Witness ==
    /\ JustStepped(PHASE_PASS2_EMIT_VARIABLES)
    /\ asm.phase = PHASE_DONE
    /\ asm.pass2_variable_results # <<>>
    /\ \E i, j \in 1..Len(asm.pass2_instruction_results) :
           /\ WordsOfRecord(asm.pass2_instruction_results[i]) = 2
           /\ WordsOfRecord(asm.pass2_instruction_results[j]) = 1

-----------------------------------------------------------------------------
(* Programs on operands: overloaded mnemonics, literals at and beyond the  *)
(* ends of the word range, a forward label reference.                      *)

\* 'ADD #1'
LineAddImm == <<"A","D","D"," ","#","1">>
\* 'ADD X'
LineAddX == <<"A","D","D"," ","X">>
\* 'ADD'
LineAdd == <<"A","D","D">>
\* 'AND X'
LineAndX == <<"A","N","D"," ","X">>
\* 'CMP B1'
LineCmpBin == <<"C","M","P"," ","B","1">>
\* 'LDM &10000'
LineLdmBig == <<"L","D","M"," ","&","1","0","0","0","0">>
\* 'LDM #-1'
LineLdmNeg == <<"L","D","M"," ","#","-","1">>
\* 'OUT #-1'
LineOutNeg == <<"O","U","T"," ","#","-","1">>
\* 'V: &FFFF'
LineVarMax == <<"V",":"," ","&","F","F","F","F">>
\* 'JMP DONE'
LineJmpDone == <<"J","M","P"," ","D","O","N","E">>
\* 'DONE: END'
LineDoneEnd == <<"D","O","N","E",":"," ","E","N","D">>

OperandLines ==
    {LineAddImm, LineAddX, LineAdd, LineAndX, LineCmpBin, LineLdmBig, LineLdmNeg,
     LineOutNeg, LineVarMax, LineJmpDone, LineDoneEnd, LineLdm, LineVarX,
     LineVarNeg, LineEnd}

\* Every program of at most MaxLines of these lines.
OperandSources == UNION {[1..n -> OperandLines] : n \in 0..MaxLines}

InitOperands == Constructed(OperandSources)

SpecOperands == InitOperands /\ [][Next]_vars

\* Opcodes of the overloaded mnemonics: the IMMEDIATE definition and the
\* other one.
ImmediateOpcode ==
    [ADD |-> 8, SUB |-> 10, CMP |-> 15, AND |-> 22, XOR |-> 24, OR |-> 26]
OtherOpcode ==
    [ADD |-> 7, SUB |-> 9, CMP |-> 14, AND |-> 23, XOR |-> 25, OR |-> 27]

\* The record step worked on has an overloaded mnemonic.
WorkedOnOverloaded ==
    /\ WorkedOnInstruction
    /\ Str(WorkedRecord.mnemonic) \in DOMAIN ImmediateOpcode

\* C12: for ADD, SUB, CMP, AND, OR, XOR pass 2 emits the opcode of the
\* IMMEDIATE definition when the operand token starts with '#', 'B' or '&' and
\* the opcode of the other definition for any other token; with the operand
\* missing the stepper goes to ERROR.
C12_OverloadedMnemonicOpcode ==
    WorkedOnOverloaded
    => LET mnemonic == Str(WorkedRecord.mnemonic)
           operand_token == WorkedRecord.operand_token
       IN /\ operand_token = NoneTok
             => /\ asm.phase = PHASE_ERROR
                /\ last.raised = "None"
          /\ EmittedInstruction
             => compute_opcode(last.snapshot.ram_writes[1].value)
                    = IF operand_token[1] \in {"#", "B", "&"}
                      THEN ImmediateOpcode[mnemonic]
                      ELSE OtherOpcode[mnemonic]

\* 'AND X', whose first definition in the registry is the IMMEDIATE one, has
\* just been emitted with the opcode of the other definition.
C12_Witness ==
    /\ WorkedOnOverloaded
    /\ EmittedInstruction
    /\ Str(WorkedRecord.mnemonic) = "AND"
    /\ WorkedRecord.operand_token = <<"X">>
    /\ last.snapshot.ram_writes[1].value = 23 * 256

\* The pass-2 step just made worked on a variable record.
WorkedOnVariable ==
    /\ JustStepped(PHASE_PASS2_EMIT_VARIABLES)
    /\ asm.phase # PHASE_DONE

\* The variable record that step worked on.
WorkedVariableRecord ==
    asm.pass2_variable_results[
        IF EmittedVariable THEN asm.pass2_index ELSE asm.pass2_index + 1]

\* The token is a literal int() accepts, of a value outside 0..65535.
IsLiteralOutOfRange(token) ==
    /\ token # NoneTok
    /\ StartsWithLiteralPrefix(token)
    /\ \E n \in {ParseInt(Tail(token), LiteralBase(token))} :
           n.ok /\ ~(0 <= n.value /\ n.value <= OxFFFF)

\* The step ended in ERROR and emitted nothing.
RefusedRecord ==
    /\ last.raised = "None"
    /\ asm.phase = PHASE_ERROR
    /\ last.snapshot.ram_writes = <<>>

\* C13: an operand literal or a variable literal of a value outside 0..65535,
\* negative decimal literals included, puts the stepper in ERROR and emits no
\* word; every emitted word lies in 0..65535.
C13_LiteralOutOfRangeRefused ==
    /\ (WorkedOnInstruction /\ IsLiteralOutOfRange(WorkedRecord.operand_token))
       => RefusedRecord
    /\ (WorkedOnVariable /\ IsLiteralOutOfRange(WorkedVariableRecord.operand_token))
       => RefusedRecord
    /\ \A i \in 1..Len(asm.emitted_words) :
           0 <= asm.emitted_words[i] /\ asm.emitted_words[i] <= OxFFFF

\* The source of the forward reference: 'JMP DONE', 'LDM #1', 'DONE: END'.
ForwardReferenceSource == <<LineJmpDone, LineLdm, LineDoneEnd>>

\* The assembly of that source, with `address` as the address of DONE: pass 1
\* binds DONE to it before pass 2 emits a word, the JMP record emits 0x0D00
\* and it at addresses 0 and 1, and the assembly ends in DONE.
ForwardReferenceAssembles(address) ==
    asm.raw_lines = ForwardReferenceSource
    => /\ asm.phase # PHASE_ERROR
       /\ last.raised = "None"
       /\ asm.phase \in {PHASE_TRIM, PHASE_PASS1_SCAN, PHASE_PASS1_FINALISE}
          => asm.emitted_words = <<>>
       /\ asm.phase \notin {PHASE_TRIM, PHASE_PASS1_SCAN}
          => asm.instruction_labels[<<"D","O","N","E">>] = address
       /\ (EmittedInstruction /\ Str(WorkedRecord.mnemonic) = "JMP")
          => last.snapshot.ram_writes
                 = <<RamWrite(0, 13 * 256), RamWrite(1, address)>>
       /\ calls >= 14
          => /\ asm.phase = PHASE_DONE
             /\ SubSeq(asm.emitted_words, 1, 2) = <<13 * 256, address>>

\* C14 as stated: 'JMP DONE', 'LDM #1', 'DONE: END' ends in DONE with JMP
\* emitted as 0x0D00 0x0002, 0x0002 being the address pass 1 bound to DONE
\* before pass 2 emitted anything.
C14_ForwardReferenceAtTwo == ForwardReferenceAssembles(2)

\* C14, amended: the same with JMP emitted as 0x0D00 0x0004; JMP and LDM are
\* long-operand instructions of two words each, so DONE stands at address 4.
C14_ForwardReferenceAtFour == ForwardReferenceAssembles(4)

\* The source of the forward reference was assembled to DONE.
C14_Witness ==
    /\ asm.raw_lines = ForwardReferenceSource
    /\ asm.phase = PHASE_DONE
    /\ asm.emitted_words = <<13 * 256, 4, 0, 1, 21 * 256>>

-----------------------------------------------------------------------------
(* The CPU (src/cpu/cpu.py) and its control unit (src/simulator/CU.py).    *)
(*                                                                         *)
(* A CPU object is a record c: c.components maps a component name to the  *)
(* component's fields, c.cu holds the fields of the control unit and       *)
(* c.cycles the cycle counter.  An operation takes c and gives a record    *)
(* with the object after the call (field c), the exception that left the   *)
(* call (field raised, NoneMsg if none) and what the call returned.  A     *)
(* value read from a component comes with the flag `none`, TRUE when the   *)
(* Python value is None.  A character of an I/O queue is its code point.   *)

\* RTN step classes of src/common/instructions.py
SimpleTransferStep(source, destination) ==
    [type |-> "SimpleTransferStep", source |-> source,
     destination |-> destination]

ConditionalTransferStep(source, destination, condition) ==
    [type |-> "ConditionalTransferStep", source |-> source,
     destination |-> destination, condition |-> condition]

MemoryAccessStep(is_address, control) ==
    [type |-> "MemoryAccessStep", is_address |-> is_address,
     control |-> control]

ALUOperationStep(source, control) ==
    [type |-> "ALUOperationStep", source |-> source, control |-> control]

\* source is NoneMsg when the step has no source register
RegOperationStep(destination, control, source) ==
    [type |-> "RegOperationStep", destination |-> destination,
     control |-> control, source |-> source]

\* current_RTNStep / last_RTNStep = None
NoStep == [type |-> NoneMsg]

direct_addressing_RTNSteps ==
    << SimpleTransferStep("MDR", "MAR"),
       MemoryAccessStep(TRUE, "r"),
       MemoryAccessStep(FALSE, "r") >>

indirect_addressing_RTNSteps ==
    direct_addressing_RTNSteps \o
    << SimpleTransferStep("MDR", "MAR"),
       MemoryAccessStep(TRUE, "r"),
       MemoryAccessStep(FALSE, "r") >>

\* The indexed steps without the addition of IX to MAR.
IndexedStepsWithoutIndex == direct_addressing_RTNSteps

indexed_addressing_RTNSteps ==
    << SimpleTransferStep("MDR", "MAR"),
       RegOperationStep("MAR", "inc", "IX"),
       MemoryAccessStep(TRUE, "r"),
       MemoryAccessStep(FALSE, "r") >>

\* rtn_sequence of the definition with opcode n, at index n + 1.
rtn_sequence ==
    LET Accumulate(control) ==
            << ALUOperationStep("MDR", control),
               SimpleTransferStep("ALU", "ACC") >>
        Shift(control) ==
            << ALUOperationStep("CU", control),
               SimpleTransferStep("ALU", "ACC") >>
        Store ==
            << SimpleTransferStep("ACC", "MDR"),
               MemoryAccessStep(TRUE, "r"),
               MemoryAccessStep(FALSE, "w") >>
    IN << << SimpleTransferStep("MDR", "ACC") >>,                       \* LDM
          direct_addressing_RTNSteps
              \o << SimpleTransferStep("MDR", "ACC") >>,                \* LDD
          indirect_addressing_RTNSteps
              \o << SimpleTransferStep("MDR", "ACC") >>,                \* LDI
          indexed_addressing_RTNSteps
              \o << SimpleTransferStep("MDR", "ACC") >>,                \* LDX
          << SimpleTransferStep("MDR", "IX") >>,                        \* LDR
          << SimpleTransferStep("ACC", "OPERAND") >>,                   \* MOV
          << SimpleTransferStep("MDR", "MAR") >> \o Store,              \* STO
          direct_addressing_RTNSteps \o Accumulate("add"),              \* ADD
          Accumulate("add"),                                            \* ADD #
          direct_addressing_RTNSteps \o Accumulate("sub"),              \* SUB
          Accumulate("sub"),                                            \* SUB #
          << RegOperationStep("OPERAND", "inc", NoneMsg) >>,            \* INC
          << RegOperationStep("OPERAND", "dec", NoneMsg) >>,            \* DEC
          << SimpleTransferStep("MDR", "PC") >>,                        \* JMP
          direct_addressing_RTNSteps
              \o << ALUOperationStep("MDR", "cmp") >>,                  \* CMP
          << ALUOperationStep("MDR", "cmp") >>,                         \* CMP #
          indirect_addressing_RTNSteps
              \o << ALUOperationStep("MDR", "cmp") >>,                  \* CMI
          << ConditionalTransferStep("MDR", "PC", TRUE) >>,             \* JPE
          << ConditionalTransferStep("MDR", "PC", FALSE) >>,            \* JPN
          << SimpleTransferStep("IN", "ACC") >>,                        \* IN
          << SimpleTransferStep("ACC", "OUT") >>,                       \* OUT
          << >>,                                                        \* END
          Accumulate("and"),                                            \* AND #
          direct_addressing_RTNSteps \o Accumulate("and"),              \* AND
          Accumulate("xor"),                                            \* XOR #
          direct_addressing_RTNSteps \o Accumulate("xor"),              \* XOR
          Accumulate("or"),                                             \* OR #
          direct_addressing_RTNSteps \o Accumulate("or"),               \* OR
          Shift("lsl"),                                                 \* LSL
          Shift("lsr"),                                                 \* LSR
          direct_addressing_RTNSteps
              \o << SimpleTransferStep("MDR", "MAR") >> \o Store,       \* STI
          << SimpleTransferStep("MDR", "MAR"),
             RegOperationStep("MAR", "inc", "IX") >> \o Store >>        \* STX

\* The fetch steps without the increment of PC that ends them.
FetchStepsLeavingPC ==
    << SimpleTransferStep("PC", "MAR"),
       MemoryAccessStep(TRUE, "r"),
       MemoryAccessStep(FALSE, "r"),
       SimpleTransferStep("MDR", "CIR") >>

FETCH_RTNSteps ==
    << SimpleTransferStep("PC", "MAR"),
       MemoryAccessStep(TRUE, "r"),
       MemoryAccessStep(FALSE, "r"),
       SimpleTransferStep("MDR", "CIR"),
       RegOperationStep("PC", "inc", NoneMsg) >>

DECODE_RTNSteps == << SimpleTransferStep("CIR", "CU") >>

\* The long-operand fetch steps alone, without the decode step in front.
OperandFetchStepsOnly ==
    << SimpleTransferStep("PC", "MAR"),
       MemoryAccessStep(TRUE, "r"),
       MemoryAccessStep(FALSE, "r"),
       RegOperationStep("PC", "inc", NoneMsg) >>

\* The sequence that replaces DECODE_RTNSteps inside the decode step when
\* the instruction has a long operand: it repeats the decode step at index
\* 0, so that index 1 is the step to run next.
FETCH_LONG_OPERAND_RTNSteps ==
    << SimpleTransferStep("CIR", "CU"),
       SimpleTransferStep("PC", "MAR"),
       MemoryAccessStep(TRUE, "r"),
       MemoryAccessStep(FALSE, "r"),
       RegOperationStep("PC", "inc", NoneMsg) >>

\* CyclePhase, in the order CYCLE_PHASES yields them
CyclePhases == << "fetch", "decode", "execute" >>

\* WORD_SIZE = 16
WORD_SIZE == 16

\* 1 << WORD_SIZE
WordModulus == 2 ^ WORD_SIZE

\* The default contents of an IO queue, "example", as code points.
ExampleContents == << 101, 120, 97, 109, 112, 108, 101 >>

\* The components CPU.__init__ creates and hands to the control unit.
create_required_components_for_CU ==
    LET Register == [_value |-> 0, _control |-> NoneMsg,
                     last_active |-> FALSE]
        Bus == [last_connections |-> << >>, last_active |-> FALSE]
        FlagComponent == [value |-> FALSE, last_active |-> FALSE]
        ALU == [control |-> NoneMsg, acc |-> 0, operand |-> 0, result |-> 0,
                last_active |-> FALSE]
        RAMAddress == [address |-> 0, last_active |-> FALSE]
        \* memory holds the cells that differ from 0 (every address of
        \* 0 .. 2^WORD_SIZE - 1 is a key of the dictionary) and the keys
        \* outside that range; data is the attribute set by read()
        RAM == [memory |-> EmptyDict, data |-> NoneInt,
                last_active |-> FALSE]
        IO == [contents |-> ExampleContents, last_active |-> FALSE]
    IN [name \in RegisterNames \union
                 {"ALU", "CMP_FLAG", "ADDRESS_BUS", "INNER_DATA_BUS",
                  "RAM_ADDRESS", "RAM_DATA", "IN", "OUT"} |->
            CASE name \in RegisterNames -> Register
              [] name \in {"ADDRESS_BUS", "INNER_DATA_BUS"} -> Bus
              [] name = "CMP_FLAG" -> FlagComponent
              [] name = "ALU" -> ALU
              [] name = "RAM_ADDRESS" -> RAMAddress
              [] name = "RAM_DATA" -> RAM
              [] OTHER -> IO]

\* component.set_last_active(True) for each named component; the control
\* unit is the component "CU".
set_last_active(c, names) ==
    [c EXCEPT !.components =
                  [n \in DOMAIN c.components |->
                      IF n \in names
                      THEN [c.components[n] EXCEPT !.last_active = TRUE]
                      ELSE c.components[n]],
              !.cu.last_active = IF "CU" \in names THEN TRUE ELSE @]

\* bus.set_last_connections(connections)
set_last_connections(c, bus, connections) ==
    [c EXCEPT !.components[bus].last_connections = connections]

\* RAM.memory.get(address)
MemoryGet(memory, address) ==
    IF address \in DOMAIN memory
    THEN [none |-> FALSE, value |-> memory[address]]
    ELSE IF address \in 0..(WordModulus - 1)
    THEN [none |-> FALSE, value |-> 0]
    ELSE [none |-> TRUE, value |-> 0]

\* RAM.memory[address] = word
MemorySet(memory, address, word) ==
    IF word = 0 /\ address \in 0..(WordModulus - 1)
    THEN IF address \notin DOMAIN memory THEN memory
         ELSE [a \in DOMAIN memory \ {address} |-> memory[a]]
    ELSE DictSet(memory, address, word)

\* component.read() of the named component
ComponentRead(c, name) ==
    LET comp == c.components[name]
        Value(v, after) ==
            [raised |-> NoneMsg, none |-> FALSE, value |-> v, c |-> after]
        Nothing(after) ==
            [raised |-> NoneMsg, none |-> TRUE, value |-> 0, c |-> after]
        \* RAM.read: self.data = self.memory.get(address)
        Cell(found) ==
            IF found.none
            THEN Nothing([c EXCEPT !.components[name].data = NoneInt])
            ELSE Value(found.value,
                       [c EXCEPT !.components[name].data = found.value])
    IN CASE name \in RegisterNames ->
                \* Register.read: the control signal becomes READ
                Value(comp._value,
                      [c EXCEPT !.components[name]._control = "r"])
         [] name = "CU" ->
                Value(IF c.cu.operand = NoneInt THEN 0 ELSE c.cu.operand, c)
         [] name = "ALU" -> Value(comp.result, c)
         [] name = "CMP_FLAG" -> Value(comp.value, c)
         [] name = "RAM_ADDRESS" -> Value(comp.address, c)
         [] name = "RAM_DATA" ->
                Cell(MemoryGet(comp.memory,
                               c.components["RAM_ADDRESS"].address))
         [] name \in {"IN", "OUT"} ->
                \* IO.read: the head of the queue, None on an empty queue
                IF comp.contents # << >>
                THEN Value(Head(comp.contents),
                           [c EXCEPT !.components[name].contents = Tail(@)])
                ELSE Nothing(c)
         [] OTHER ->
                \* Bus.read
                [raised |-> "AbnormalComponentUseError", none |-> TRUE,
                 value |-> 0, c |-> c]

RECURSIVE Decimal(_)
\* str(n) for an integer n >= 0
Decimal(n) ==
    IF n < 10 THEN DigitChars[n + 1]
    ELSE Decimal(n \div 10) \o DigitChars[(n % 10) + 1]

\* CU.get_instruction_definition(opcode) returns a definition (it raises
\* ValueError otherwise)
HasDefinition(opcode) == opcode \in 0..(Len(instruction_set) - 1)

\* CU.stringify_operand
stringify_operand(c) ==
    IF c.cu.opcode = NoneInt
    THEN [raised |-> NoneMsg, text |-> "None", c |-> c]
    ELSE IF ~HasDefinition(c.cu.opcode)
    THEN [raised |-> ValueError, text |-> "", c |-> c]
    ELSE IF instruction_set[c.cu.opcode + 1].long_operand
    THEN [raised |-> NoneMsg,
          text |-> Decimal(c.components["MDR"]._value),
          c |-> [c EXCEPT !.components["MDR"]._control = "r"]]
    ELSE IF \E key \in RegisterNames : RegisterIndex[key] = c.cu.operand
    THEN [raised |-> NoneMsg,
          text |-> CHOOSE key \in RegisterNames :
                       RegisterIndex[key] = c.cu.operand,
          c |-> c]
    ELSE [raised |-> NoneMsg, text |-> Decimal(c.cu.operand), c |-> c]

\* CU.stringify_instruction
stringify_instruction(c) ==
    LET mnemonic == instruction_set[c.cu.opcode + 1].mnemonic
        Short(s) ==
            [raised |-> s.raised, text |-> mnemonic \o " " \o s.text,
             c |-> s.c]
    IN IF c.cu.opcode = NoneInt
       THEN [raised |-> NoneMsg, text |-> "None", c |-> c]
       ELSE IF ~HasDefinition(c.cu.opcode)
       THEN [raised |-> ValueError, text |-> "", c |-> c]
       ELSE IF ~instruction_set[c.cu.opcode + 1].long_operand
       THEN Short(stringify_operand(c))
       ELSE IF c.cu.current_phase # "execute"
       THEN [raised |-> NoneMsg, text |-> mnemonic \o " ...", c |-> c]
       ELSE [raised |-> NoneMsg,
             text |-> mnemonic \o " "
                          \o Decimal(c.components["MDR"]._value),
             c |-> [c EXCEPT !.components["MDR"]._control = "r"]]

\* CU.set_instruction(instruction)
set_instruction(c, instruction) ==
    LET Queued(s) ==
            IF s.raised # NoneMsg THEN [raised |-> s.raised, c |-> s.c]
            ELSE [raised |-> NoneMsg,
                  c |-> [s.c EXCEPT
                            !.cu.stringified_instruction = s.text,
                            !.cu.RTN_sequence = FETCH_LONG_OPERAND_RTNSteps]]
        Decoded(d) ==
            IF ~HasDefinition(d.cu.opcode)
            THEN [raised |-> ValueError, c |-> d]
            ELSE IF instruction_set[d.cu.opcode + 1].long_operand
            THEN Queued(stringify_instruction(d))
            ELSE [raised |-> NoneMsg, c |-> d]
    IN Decoded([c EXCEPT !.cu.opcode = compute_opcode(instruction),
                         !.cu.operand = DecodedOperand(instruction),
                         !.cu.current_instruction = instruction])

\* component.write(data) of the named component; none tells that data is
\* None
ComponentWrite(c, name, data, none) ==
    LET Done(after) == [raised |-> NoneMsg, c |-> after]
        Fails(kind, after) == [raised |-> kind, c |-> after]
    IN CASE name \in RegisterNames ->
                \* Register.write: value % (1 << WORD_SIZE), signal WRITE
                IF none THEN Fails("TypeError", c)
                ELSE Done([c EXCEPT
                              !.components[name]._value = data % WordModulus,
                              !.components[name]._control = "w"])
         [] name = "CU" ->
                \* CU.write: binary_instruction = data; set_instruction
                IF none
                THEN Fails("TypeError",
                           [c EXCEPT !.cu.binary_instruction = NoneInt])
                ELSE set_instruction(
                         [c EXCEPT !.cu.binary_instruction = data], data)
         [] name = "CMP_FLAG" ->
                Done([c EXCEPT !.components[name].value = data])
         [] name = "RAM_ADDRESS" ->
                Done([c EXCEPT !.components[name].address = data])
         [] name = "RAM_DATA" ->
                \* RAM.write: memory[address] = data % (1 << WORD_SIZE)
                IF none THEN Fails("TypeError", c)
                ELSE Done([c EXCEPT !.components[name].memory =
                              MemorySet(@,
                                  c.components["RAM_ADDRESS"].address,
                                  data % WordModulus)])
         [] name \in {"IN", "OUT"} ->
                \* IO.write: contents += chr(data)
                IF none THEN Fails("TypeError", c)
                ELSE IF data \notin 0..1114111 THEN Fails(ValueError, c)
                ELSE Done([c EXCEPT !.components[name].contents =
                              Append(@, data)])
         [] OTHER ->
                \* ALU.write, Bus.write
                Fails("AbnormalComponentUseError", c)

\* data = source.read(); destination.write(data)
Transfer(c, source, destination) ==
    LET Written(r) ==
            IF r.raised # NoneMsg THEN [raised |-> r.raised, c |-> r.c]
            ELSE ComponentWrite(r.c, destination, r.value, r.none)
    IN Written(ComponentRead(c, source))

\* A resolution that takes the accumulator when no register has the
\* operand as its index.
ResolveToAccumulator(c, destination) ==
    [raised |-> NoneMsg,
     name |-> IF destination # "OPERAND" THEN destination
              ELSE IF \E key \in RegisterNames :
                          RegisterIndex[key] = c.cu.operand
              THEN CHOOSE key \in RegisterNames :
                       RegisterIndex[key] = c.cu.operand
              ELSE "ACC"]

\* CU._resolve_destination_name(destination)
_resolve_destination_name(c, destination) ==
    IF destination # "OPERAND"
    THEN [raised |-> NoneMsg, name |-> destination]
    ELSE IF c.cu.operand = NoneInt
    THEN [raised |-> ValueError, name |-> destination]
    ELSE IF \E key \in RegisterNames : RegisterIndex[key] = c.cu.operand
    THEN [raised |-> NoneMsg,
          name |-> CHOOSE key \in RegisterNames :
                       RegisterIndex[key] = c.cu.operand]
    ELSE [raised |-> ValueError, name |-> destination]

\* The accumulator as the register of every operand.
AccumulatorDestination(c, destination) ==
    [raised |-> NoneMsg,
     name |-> IF destination = "OPERAND" THEN "ACC" ELSE destination]

\* CU._get_dest(destination): when no register has the operand as its index
\* the name is still OPERAND, which is no key of the components dictionary.
_get_dest(c, destination) ==
    IF destination # "OPERAND"
    THEN [raised |-> NoneMsg, name |-> destination]
    ELSE IF c.cu.operand = NoneInt
    THEN [raised |-> ValueError, name |-> destination]
    ELSE IF \E key \in RegisterNames : RegisterIndex[key] = c.cu.operand
    THEN [raised |-> NoneMsg,
          name |-> CHOOSE key \in RegisterNames :
                       RegisterIndex[key] = c.cu.operand]
    ELSE [raised |-> "KeyError", name |-> destination]

\* A transfer that takes the data from the bus it is shown on.
TransferOffTheBus(c, rtn_step) ==
    Transfer(set_last_active(c, {rtn_step.source, "INNER_DATA_BUS"}),
             "INNER_DATA_BUS", rtn_step.source)

\* CU._handle_simple_transfer(step)
_handle_simple_transfer(c, rtn_step) ==
    LET WithDestination(dest, d) ==
            IF dest.raised # NoneMsg THEN [raised |-> dest.raised, c |-> d]
            ELSE Transfer(
                     set_last_connections(
                         set_last_active(d, {dest.name, "INNER_DATA_BUS"}),
                         "INNER_DATA_BUS",
                         << << rtn_step.source, dest.name >> >>),
                     rtn_step.source, dest.name)
    IN WithDestination(_resolve_destination_name(c, rtn_step.destination),
                set_last_active(c, {rtn_step.source}))

\* A conditional transfer made whatever the flag is.
TransferUnconditionally(c, rtn_step) ==
    _handle_simple_transfer(
        c, SimpleTransferStep(rtn_step.source, rtn_step.destination))

\* CU._handle_conditional_transfer(step)
_handle_conditional_transfer(c, rtn_step) ==
    IF rtn_step.condition = c.components["CMP_FLAG"].value
    THEN _handle_simple_transfer(
             c, SimpleTransferStep(rtn_step.source, rtn_step.destination))
    ELSE [raised |-> NoneMsg, c |-> c]

\* CU._handle_memory_access(step)
_handle_memory_access(c, rtn_step) ==
    IF rtn_step.is_address
    THEN Transfer(
             set_last_connections(
                 set_last_active(c, {"MAR", "RAM_ADDRESS", "ADDRESS_BUS"}),
                 "ADDRESS_BUS", << << "MAR", "RAM_ADDRESS" >> >>),
             "MAR", "RAM_ADDRESS")
    ELSE IF rtn_step.control = "w"
    THEN Transfer(
             set_last_connections(
                 set_last_active(c, {"ADDRESS_BUS", "RAM_DATA", "MDR"}),
                 "ADDRESS_BUS", << << "MDR", "RAM_DATA" >> >>),
             "MDR", "RAM_DATA")
    ELSE Transfer(
             set_last_connections(
                 set_last_active(c, {"ADDRESS_BUS", "MDR", "RAM_DATA"}),
                 "ADDRESS_BUS", << << "RAM_DATA", "MDR" >> >>),
             "RAM_DATA", "MDR")

RECURSIVE Bitwise(_, _, _, _)
\* a & b, a | b, a ^ b on the low `bits` bits of two integers
Bitwise(control, a, b, bits) ==
    IF bits = 0 THEN 0
    ELSE (CASE control = "and" -> IF a % 2 = 1 /\ b % 2 = 1 THEN 1 ELSE 0
            [] control = "or" -> IF a % 2 = 1 \/ b % 2 = 1 THEN 1 ELSE 0
            [] OTHER -> IF a % 2 # b % 2 THEN 1 ELSE 0)
         + 2 * Bitwise(control, a \div 2, b \div 2, bits - 1)

\* An ALU that subtracts and sets the flag whatever its mode is.
computeFlagging(c) ==
    [raised |-> NoneMsg,
     c |-> [c EXCEPT !.components["CMP_FLAG"].value =
                         (c.components["ALU"].acc
                              = c.components["ALU"].operand),
                     !.components["ALU"].result =
                         (c.components["ALU"].acc
                              - c.components["ALU"].operand) % WordModulus]]

\* ALU.compute, on the operands and the mode the ALU holds
compute(c) ==
    LET alu == c.components["ALU"]
        \* ALU._set_result: result % (1 << WORD_SIZE)
        Result(result) ==
            [raised |-> NoneMsg,
             c |-> [c EXCEPT !.components["ALU"].result =
                                 result % WordModulus]]
    IN CASE alu.control = "add" -> Result(alu.acc + alu.operand)
         [] alu.control = "sub" -> Result(alu.acc - alu.operand)
         [] alu.control \in {"and", "or", "xor"} ->
                Result(Bitwise(alu.control, alu.acc, alu.operand, WORD_SIZE))
         [] alu.control = "cmp" ->
                [raised |-> NoneMsg,
                 c |-> [c EXCEPT !.components["CMP_FLAG"].value =
                                     (alu.acc = alu.operand)]]
         [] OTHER -> [raised |-> "AbnormalComponentUseError", c |-> c]

\* CU._handle_alu_operation(step)
\* set_operands with the two operands taken the other way round.
set_operandsSwapped(c, acc, operand) ==
    [c EXCEPT !.components["ALU"].acc = operand,
              !.components["ALU"].operand = acc]

\* ALU.set_operands(acc, operand)
set_operands(c, acc, operand) ==
    [c EXCEPT !.components["ALU"].acc = acc,
              !.components["ALU"].operand = operand]

\* ALU.set_mode(control)
set_mode(c, control) == [c EXCEPT !.components["ALU"].control = control]

_handle_alu_operation(c, rtn_step) ==
    LET \* alu.set_operands(acc, operand); alu.set_mode(step.control)
        Operands(a, s) ==
            compute(set_mode(set_operands(s.c, a.value, s.value),
                             rtn_step.control))
        Source(a) == Operands(a, ComponentRead(a.c, rtn_step.source))
    IN Source(ComponentRead(
           set_last_connections(
               set_last_active(c, {"ALU", "ACC", rtn_step.source,
                                   "INNER_DATA_BUS"}),
               "INNER_DATA_BUS",
               << << "ACC", "ALU" >>, << rtn_step.source, "ALU" >> >>),
           "ACC"))

\* CU._handle_reg_operation(step)
_handle_reg_operation(c, rtn_step) ==
    LET \* Register.inc(offset), Register.dec(offset)
        Applied(d, name, offset) ==
            [raised |-> NoneMsg,
             c |-> [d EXCEPT
                       !.components[name]._value =
                           IF rtn_step.control = "inc"
                           THEN (@ + offset) % WordModulus
                           ELSE IF rtn_step.control = "dec"
                           THEN (@ - offset) % WordModulus
                           ELSE @,
                       !.components[name]._control =
                           IF rtn_step.control \in {"inc", "dec"}
                           THEN rtn_step.control ELSE @]]
        Offset(r, name) == Applied(r.c, name, r.value)
        WithDestination(dest) ==
            IF dest.raised # NoneMsg THEN [raised |-> dest.raised, c |-> c]
            ELSE IF rtn_step.source = NoneMsg
            THEN Applied(set_last_active(c, {dest.name}), dest.name, 1)
            ELSE Offset(ComponentRead(
                            set_last_active(c, {dest.name, rtn_step.source}),
                            rtn_step.source),
                        dest.name)
    IN WithDestination(_get_dest(c, rtn_step.destination))

\* CU.execute_RTN_step(step)
execute_RTN_step(c, rtn_step) ==
    LET Dispatched(d) ==
            CASE rtn_step.type = "SimpleTransferStep" ->
                     _handle_simple_transfer(d, rtn_step)
              [] rtn_step.type = "ConditionalTransferStep" ->
                     _handle_conditional_transfer(d, rtn_step)
              [] rtn_step.type = "MemoryAccessStep" ->
                     _handle_memory_access(d, rtn_step)
              [] rtn_step.type = "ALUOperationStep" ->
                     _handle_alu_operation(d, rtn_step)
              [] OTHER -> _handle_reg_operation(d, rtn_step)
    IN Dispatched(
           [c EXCEPT !.components =
                         [n \in DOMAIN c.components |->
                             [c.components[n] EXCEPT !.last_active = FALSE]],
                     !.cu.last_active = TRUE])

\* CU.enter_phase(phase)
enter_phase(c, phase) ==
    LET \* the first step of the new sequence is prepared for display
        Prepared(d) ==
            [raised |-> NoneMsg,
             c |-> [d EXCEPT !.cu.current_RTNStep =
                                 IF d.cu.RTN_sequence # << >>
                                 THEN d.cu.RTN_sequence[1] ELSE NoStep]]
        \* after print_instruction(): the sequence of the decoded instruction
        Printed(s) ==
            IF s.raised # NoneMsg THEN [raised |-> s.raised, c |-> s.c]
            ELSE IF instruction_set[s.c.cu.opcode + 1].mnemonic = "END"
            THEN [raised |-> NoneMsg,
                  c |-> [s.c EXCEPT !.cu.RTN_sequence = << >>]]
            ELSE Prepared([s.c EXCEPT !.cu.RTN_sequence =
                                          rtn_sequence[s.c.cu.opcode + 1]])
        Named(d) ==
            IF d.cu.opcode = NoneInt THEN [raised |-> ValueError, c |-> d]
            ELSE Printed(stringify_instruction(d))
        Stringified(s) ==
            IF s.raised # NoneMsg THEN [raised |-> s.raised, c |-> s.c]
            ELSE Named([s.c EXCEPT !.cu.stringified_instruction = s.text])
        Reset(d) ==
            CASE phase = "fetch" ->
                     Prepared([d EXCEPT
                                  !.cu.stringified_instruction = "Fetching...",
                                  !.cu.RTN_sequence = FETCH_RTNSteps])
              [] phase = "decode" ->
                     Prepared([d EXCEPT
                                  !.cu.stringified_instruction = "Decoding...",
                                  !.cu.RTN_sequence = DECODE_RTNSteps])
              [] phase = "execute" -> Stringified(stringify_instruction(d))
              [] OTHER -> Prepared(d)
    IN Reset([c EXCEPT !.cu.RTN_sequence_index = 0])

\* CU.step_RTNSeries()
step_RTNSeries(c) ==
    LET Executed(r) ==
            IF r.raised # NoneMsg
            THEN [raised |-> r.raised, finished |-> FALSE, c |-> r.c]
            ELSE [raised |-> NoneMsg,
                  finished |-> r.c.cu.RTN_sequence_index + 1
                                   >= Len(r.c.cu.RTN_sequence),
                  c |-> [r.c EXCEPT
                            !.cu.last_RTNStep = r.c.cu.current_RTNStep,
                            !.cu.RTN_sequence_index = @ + 1]]
        Current(current) ==
            Executed(execute_RTN_step(
                         [c EXCEPT !.cu.current_RTNStep = current], current))
    IN IF c.cu.RTN_sequence = << >>
          \/ c.cu.RTN_sequence_index >= Len(c.cu.RTN_sequence)
       THEN [raised |-> NoneMsg, finished |-> TRUE,
             c |-> [c EXCEPT !.cu.current_RTNStep = NoStep]]
       ELSE Current(c.cu.RTN_sequence[c.cu.RTN_sequence_index + 1])

\* step_cycle returns True: the sequence is empty. p is the position of the
\* iterator CYCLE_PHASES after the call.
Ended(d, p) ==
    [raised |-> NoneMsg, finished |-> TRUE,
     c |-> [d EXCEPT !.cu.current_RTNStep = NoStep], CYCLE_PHASES |-> p]

\* step_cycle ends with self.step_RTNSeries(); return False
Stepped(s, p) ==
    [raised |-> s.raised, finished |-> FALSE, c |-> s.c, CYCLE_PHASES |-> p]

\* PhaseEntered without the second look at the sequence.
PhaseEnteredUnchecked(e, p) ==
    IF e.raised # NoneMsg
    THEN [raised |-> e.raised, finished |-> FALSE, c |-> e.c,
          CYCLE_PHASES |-> p]
    ELSE Stepped(step_RTNSeries(e.c), p)

\* step_cycle after enter_phase: the sequence is looked at again, for END
\* has an empty one.
PhaseEntered(e, p) ==
    IF e.raised # NoneMsg
    THEN [raised |-> e.raised, finished |-> FALSE, c |-> e.c,
          CYCLE_PHASES |-> p]
    ELSE IF e.c.cu.RTN_sequence = << >> THEN Ended(e.c, p)
    ELSE Stepped(step_RTNSeries(e.c), p)

\* CU.step_cycle(), with the position of the iterator CYCLE_PHASES that all
\* control units of the process share: position p yields CyclePhases[p + 1].
step_cycle(c, position) ==
    IF c.cu.RTN_sequence = << >> THEN Ended(c, position)
    ELSE IF c.cu.RTN_sequence_index >= Len(c.cu.RTN_sequence)
    THEN PhaseEntered(enter_phase(
                          [c EXCEPT !.cu.current_phase =
                                        CyclePhases[position + 1]],
                          CyclePhases[position + 1]),
                      (position + 1) % Len(CyclePhases))
    ELSE Stepped(step_RTNSeries(c), position)

\* CPU(): the components, then CU(components=components), whose phase is
\* the next one of CYCLE_PHASES and whose __post_init__ enters it, then
\* cycles = 0 and pc.write(0).
CPU(position) ==
    LET Built(e, p) ==
            IF e.raised # NoneMsg
            THEN [raised |-> e.raised, c |-> e.c, CYCLE_PHASES |-> p]
            ELSE [raised |-> NoneMsg,
                  c |-> ComponentWrite(e.c, "PC", 0, FALSE).c,
                  CYCLE_PHASES |-> p]
    IN Built(enter_phase(
                 [components |-> create_required_components_for_CU,
                  cu |-> [binary_instruction |-> NoneInt,
                          current_instruction |-> NoneInt,
                          stringified_instruction |-> NoneMsg,
                          opcode |-> NoneInt,
                          operand |-> NoneInt,
                          current_RTNStep |-> NoStep,
                          last_RTNStep |-> NoStep,
                          RTN_sequence |-> << >>,
                          RTN_sequence_index |-> 0,
                          current_phase |-> CyclePhases[position + 1],
                          last_active |-> FALSE],
                  cycles |-> 0],
                 CyclePhases[position + 1]),
             (position + 1) % Len(CyclePhases))

RECURSIVE LoadWords(_, _, _, _)
\* The passes of the loop of load_program for the addresses first to
\* end - 1, made in that order. The range is halved, and the second half
\* starts from the CPU the first half has left, its address port on the last
\* address written, so that a long program does not nest the evaluation
\* deeply.
LoadWords(c, program, first, end) ==
    LET \* the passes from the address middle on, after those before it
        Rest(d, middle) ==
            IF d.components["RAM_ADDRESS"].address = middle - 1
            THEN LoadWords(d, program, middle, end)
            ELSE d
    IN IF first >= end THEN c
       ELSE IF end = first + 1
       THEN ComponentWrite(
                ComponentWrite(c, "RAM_ADDRESS", first, FALSE).c,
                "RAM_DATA", Mask16(program[first + 1]), FALSE).c
       ELSE Rest(LoadWords(c, program, first, (first + end) \div 2),
                 (first + end) \div 2)

\* A load that leaves PC where it is.
LoadLeavingPC(c, program) ==
    LoadWords(ComponentWrite(c, "RAM_ADDRESS", 0, FALSE).c,
              program, 0, Len(program))

\* CPU.load_program(program)
load_program(c, program) ==
    ComponentWrite(
        LoadWords(ComponentWrite(c, "RAM_ADDRESS", 0, FALSE).c,
                  program, 0, Len(program)),
        "PC", 0, FALSE).c

\* CPU.step()
CPU_step(c, position) ==
    LET Counted(r) ==
            IF r.raised # NoneMsg THEN r
            ELSE [r EXCEPT !.c.cycles = @ + 1]
    IN Counted(step_cycle(c, position))

-----------------------------------------------------------------------------
(* Assembling a program, loading it and running it.                        *)
(*   cpus          the CPU objects of the process, in construction order   *)
(*   CYCLE_PHASES  the position of the phase iterator of the process       *)
(*   calls         how many times CPU.step has been called                 *)
(*   last          the last call: its kind, the exception that left it,    *)
(*                 what step returned, the CPU it was made on and that     *)
(*                 CPU and the iterator before the call                    *)

\* 'OUT'
LineOut == <<"O","U","T">>

RECURSIVE DecimalChars(_)
\* The characters of str(n), n >= 0.
DecimalChars(n) ==
    IF n < 10 THEN << DigitChars[n + 1] >>
    ELSE Append(DecimalChars(n \div 10), DigitChars[(n % 10) + 1])

\* 'LDD X', 'OUT', 'END', 'X: #v'
VariableRoundTrip(v) ==
    << LineLddX, LineOut, LineEnd, <<"X",":"," ","#">> \o DecimalChars(v) >>

\* The values v of the programs VariableRoundTrip(v) of the model.
RoundTripValues == {0, 42, 256, 65535}

\* 'LDM #5', 'OUT', 'END'
MinimalProgram == << <<"L","D","M"," ","#","5">>, LineOut, LineEnd >>

\* 'LSL #1', 'END'
ShiftProgram == << <<"L","S","L"," ","#","1">>, LineEnd >>

\* The programs that are assembled, loaded and run on one CPU.
CpuSources ==
    {VariableRoundTrip(v) : v \in RoundTripValues} \union
    { MinimalProgram,
      ShiftProgram,
      << LineEnd >>,
      \* 'CMP #0', 'JPE L', 'OUT', 'L: END'
      << <<"C","M","P"," ","#","0">>, <<"J","P","E"," ","L">>, LineOut,
         <<"L",":"," ","E","N","D">> >>,
      \* 'IN', 'STO #9', 'END'
      << <<"I","N">>, <<"S","T","O"," ","#","9">>, LineEnd >>,
      \* 'INC ACC', 'MOV IX', 'END'
      << <<"I","N","C"," ","A","C","C">>, <<"M","O","V"," ","I","X">>,
         LineEnd >>,
      \* 'L: JMP L', 'END'
      << <<"L",":"," ","J","M","P"," ","L">>, LineEnd >> }

\* The programs run on several CPUs of one process.
InterleavedSources == { << LineEnd >>, MinimalProgram }

\* max_steps of run_to_completion when the caller gives none
DefaultMaxSteps == 1000000

\* CPU.step calls followed on the CPU of SpecCpu.
MaxCpuCalls == 32

\* CPU objects constructed in one process.
MaxCpus == 2

\* CPU.step calls followed, in all, on the CPUs of SpecCpus.
MaxInterleavedCalls == 10

\* No CPU object (the call was not made on one).
NoCpu == [cycles |-> NoneInt]

Called(op, raised, finished, cpu, before) ==
    [op |-> op, raised |-> raised, finished |-> finished, cpu |-> cpu,
     before |-> before, position |-> CYCLE_PHASES]

\* A program has been loaded into the CPU: load_program stores its words
\* from address 0, and every assembled program holds the nonzero END word.
Loaded(c) == c.components["RAM_DATA"].memory # EmptyDict

\* A stepper constructed on one of the given programs, no CPU yet.
Process(programs) ==
    /\ \E source_lines \in programs : asm = AssemblerStepper(source_lines)
    /\ last = [op |-> "new", raised |-> NoneMsg, finished |-> FALSE,
               cpu |-> 0, before |-> NoCpu, position |-> 0]
    /\ calls = 0
    /\ cpus = << >>
    /\ CYCLE_PHASES = 0
    /\ unit = NoUnit

\* AssemblerStepper(source_lines).run_to_completion(), for each program of
\* the model.
Assembled ==
    [source_lines \in CpuSources \union InterleavedSources |->
        run_to_completion(AssemblerStepper(source_lines), DefaultMaxSteps)]

\* words = AssemblerStepper(source_lines).run_to_completion()
Assemble ==
    /\ asm = AssemblerStepper(asm.raw_lines)
    /\ \E r \in {Assembled[asm.raw_lines]} :
        /\ asm' = r.self
        /\ last' = Called("run_to_completion", r.raised, FALSE, 0, NoCpu)
    /\ UNCHANGED <<calls, cpus, CYCLE_PHASES, unit>>

\* cpu = CPU(), while the process has fewer than `limit` CPU objects
Construct(limit) ==
    /\ Len(cpus) < limit
    /\ \E r \in {CPU(CYCLE_PHASES)} :
        /\ cpus' = IF r.raised = NoneMsg THEN Append(cpus, r.c) ELSE cpus
        /\ CYCLE_PHASES' = r.CYCLE_PHASES
        /\ last' = Called("CPU", r.raised, FALSE, Len(cpus) + 1, NoCpu)
    /\ UNCHANGED <<asm, calls, unit>>

\* cpu.load_program(words), once the words are there
Load ==
    /\ asm.phase = PHASE_DONE
    /\ \E i \in 1..Len(cpus) :
        /\ ~Loaded(cpus[i])
        /\ cpus' = [cpus EXCEPT ![i] = load_program(@, asm.emitted_words)]
        /\ last' = Called("load_program", NoneMsg, FALSE, i, cpus[i])
    /\ UNCHANGED <<asm, calls, CYCLE_PHASES, unit>>

\* cpu.step() on a loaded CPU
CpuStep(bound) ==
    /\ calls < bound
    /\ \E i \in 1..Len(cpus) :
        /\ Loaded(cpus[i])
        /\ \E r \in {CPU_step(cpus[i], CYCLE_PHASES)} :
            /\ cpus' = [cpus EXCEPT ![i] = r.c]
            /\ CYCLE_PHASES' = r.CYCLE_PHASES
            /\ last' = Called("step", r.raised, r.finished, i, cpus[i])
    /\ calls' = calls + 1
    /\ UNCHANGED <<asm, unit>>

\* One CPU in the process.
InitCpu == Process(CpuSources)

NextCpu == Assemble \/ Construct(1) \/ Load \/ CpuStep(MaxCpuCalls)

SpecCpu == InitCpu /\ [][NextCpu]_vars

\* A step call can be made: CpuStep(bound) is enabled.
StepPending(bound) ==
    calls < bound /\ \E i \in 1..Len(cpus) : Loaded(cpus[i])

\* A step call is made, as far as the count of the calls shows: the steps
\* of CpuStep(bound) are the steps that change `calls`.
StepCalled(bound) == StepPending(bound) /\ calls' = calls + 1

\* The caller keeps calling: a call that can be made is made.
SpecCpuFair ==
    /\ SpecCpu
    /\ WF_vars(Assemble) /\ WF_vars(Construct(1)) /\ WF_vars(Load)
    /\ WF_calls(StepCalled(MaxCpuCalls))

\* Several CPUs in the process, their calls in any order.
InitCpus == Process(InterleavedSources)

NextCpus ==
    Assemble \/ Construct(MaxCpus) \/ Load \/ CpuStep(MaxInterleavedCalls)

SpecCpus == InitCpus /\ [][NextCpus]_vars

-----------------------------------------------------------------------------
(* C15: a program whose END is reachable runs to halt.                     *)

\* The mnemonics whose instruction writes PC or a memory cell.
ControlMnemonics == {"JMP", "JPE", "JPN", "STO", "STI", "STX"}

\* The line is a variable line, or an instruction line that leaves PC and
\* the memory alone, so that execution goes on to the next instruction.
FallsThrough(parsed) ==
    /\ parsed.ok
    /\ \/ parsed.value.mnemonic = NoneTok
       \/ /\ Str(parsed.value.mnemonic) \notin ControlMnemonics
          /\ parsed.value.operand_token # <<"P","C">>

\* The instructions of the program run one after the other to an END:
\* no line changes PC or the memory, and some line is 'END'.
StraightLineToEnd(source_lines) ==
    /\ \A i \in 1..Len(source_lines) :
           FallsThrough(_parse_line(Upper(Strip(source_lines[i])), 0, 0))
    /\ \E i \in 1..Len(source_lines) : Upper(Strip(source_lines[i])) = LineEnd

\* CPU.step has just reported halted.
StepHalted == last.op = "step" /\ last.raised = NoneMsg /\ last.finished

\* C15: for every well-formed program whose END is reachable (here: whose
\* instructions run in a straight line to an END), assembling it, loading
\* the words from address 0 and calling CPU.step again and again eventually
\* makes step report halted.
C15_ReachableEndHalts ==
    StraightLineToEnd(asm.raw_lines) => <>StepHalted

\* C15 for the programs without a shift instruction, which do run to halt.
C15_HaltsWithoutShift ==
    (StraightLineToEnd(asm.raw_lines) /\ asm.raw_lines # ShiftProgram)
        => <>StepHalted

\* C15, why the shift program never halts: a step call that raises
\* AbnormalComponentUseError in EXECUTE leaves the CPU exactly as it was, so
\* the next call raises again, whatever the number of calls.
C15_ShiftErrorRepeats ==
    (/\ last.op = "step"
     /\ last.raised = "AbnormalComponentUseError"
     /\ last.before.cu.current_phase = "execute")
        => cpus[last.cpu] = last.before

-----------------------------------------------------------------------------
(* C16: a variable declared after the instructions, read by LDD.           *)

\* The last element appended to the output port, NoneInt when it is empty.
LastOutput(c) ==
    IF c.components["OUT"].contents = << >> THEN NoneInt
    ELSE c.components["OUT"].contents[Len(c.components["OUT"].contents)]

\* The program 'LDD X', 'OUT', 'END', 'X: #v' has been run to halt.
RoundTripHalted(v) ==
    asm.raw_lines = VariableRoundTrip(v) /\ StepHalted

\* C16: for every v, the program 'LDD X', 'OUT', 'END', 'X: #v', assembled,
\* loaded and run to halt, ends with ACC = v and with v the last element
\* appended to the output port.
C16_VariableRoundTrip ==
    \A v \in RoundTripValues :
        RoundTripHalted(v) =>
            /\ cpus[1].components["ACC"]._value = v
            /\ LastOutput(cpus[1]) = v

\* What the program does: X is resolved to address 0, so LDD loads the
\* first word of the program, the LDD instruction word 0x0100 itself.
C16_LoadsInstructionWord ==
    \A v \in RoundTripValues :
        RoundTripHalted(v) =>
            /\ asm.emitted_words = <<256, 0, 5120, 5376, v>>
            /\ cpus[1].components["ACC"]._value = 256
            /\ LastOutput(cpus[1]) = 256

\* The run of 'LDD X', 'OUT', 'END', 'X: #42' has halted.
C16_Halted == RoundTripHalted(42)

-----------------------------------------------------------------------------
(* C17: the phases follow FETCH, DECODE, EXECUTE, FETCH in every instance. *)

\* The phase after `phase` in FETCH -> DECODE -> EXECUTE -> FETCH.
SuccessorPhase(phase) ==
    CASE phase = "fetch" -> "decode"
      [] phase = "decode" -> "execute"
      [] phase = "execute" -> "fetch"

\* The last call constructed a CPU: its control unit is in FETCH.
ConstructedInFetch ==
    (last.op = "CPU" /\ last.raised = NoneMsg)
        => cpus[last.cpu].cu.current_phase = "fetch"

\* The last call was a step that changed the phase of its control unit: the
\* new phase is the successor of the old one, and the old sequence had been
\* run to its end.
PhaseChangedInOrder ==
    (last.op = "step" /\ cpus[last.cpu].cu.current_phase # last.before.cu.current_phase)
        => /\ cpus[last.cpu].cu.current_phase = SuccessorPhase(last.before.cu.current_phase)
           /\ last.before.cu.RTN_sequence_index >= Len(last.before.cu.RTN_sequence)

\* C17: every control unit is in FETCH at construction, and every phase
\* change made by step_cycle goes to the cyclic successor and happens only
\* at the end of the current RTN sequence, also when several CPU instances
\* of one process are stepped in any order.
C17_PhasesInOrder == ConstructedInFetch /\ PhaseChangedInOrder

\* A step of the first CPU took it from FETCH straight to EXECUTE.
C17_SkippedDecode ==
    /\ last.op = "step"
    /\ last.before.cu.current_phase = "fetch"
    /\ cpus[last.cpu].cu.current_phase = "execute"

-----------------------------------------------------------------------------
(* C18: two CPUs on the same program run alike.                            *)

\* What a trace records of a CPU: phase, step index, register values,
\* memory, flag and I/O contents.
Snapshot(c) ==
    [phase     |-> c.cu.current_phase,
     index     |-> c.cu.RTN_sequence_index,
     registers |-> [name \in RegisterNames |-> c.components[name]._value],
     memory    |-> c.components["RAM_DATA"].memory,
     flag      |-> c.components["CMP_FLAG"].value,
     input     |-> c.components["IN"].contents,
     output    |-> c.components["OUT"].contents]

\* Two CPUs have been constructed and loaded, and each has been stepped the
\* same number of times, every call having returned (cycles counts the step
\* calls of a CPU that returned).
SteppedAlike ==
    /\ Len(cpus) = 2
    /\ Loaded(cpus[1]) /\ Loaded(cpus[2])
    /\ cpus[1].cycles = cpus[2].cycles
    /\ calls = cpus[1].cycles + cpus[2].cycles

\* C18: two CPU instances constructed one after the other, loaded with the
\* same program and given the same input, show the same phase, step index,
\* register values, memory, flag and I/O contents whenever each has been
\* stepped the same number of times, whatever the order of their step calls.
C18_SameTraces == SteppedAlike => Snapshot(cpus[1]) = Snapshot(cpus[2])

\* Both CPUs are loaded and neither has been stepped, and their phases
\* differ already.
C18_DifferBeforeAnyStep ==
    /\ SteppedAlike /\ calls = 0
    /\ cpus[1].cu.current_phase = "fetch"
    /\ cpus[2].cu.current_phase = "decode"

-----------------------------------------------------------------------------
(* C19: the halt condition.                                                *)

\* The control unit is in EXECUTE, END is the decoded instruction and the
\* RTN sequence is empty.
Halted(c) ==
    /\ c.cu.current_phase = "execute"
    /\ HasDefinition(c.cu.opcode)
    /\ instruction_set[c.cu.opcode + 1].mnemonic = "END"
    /\ c.cu.RTN_sequence = << >>

\* The last call was a call of CPU.step that returned.
StepReturned == last.op = "step" /\ last.raised = NoneMsg

\* step returns True exactly when it leaves the CPU halted.
HaltedIffReported ==
    StepReturned => (last.finished <=> Halted(cpus[last.cpu]))

\* A step call on a halted CPU returns True and changes nothing of it.
HaltedStays ==
    (last.op = "step" /\ Halted(last.before))
        => /\ last.raised = NoneMsg /\ last.finished
           /\ Snapshot(cpus[last.cpu]) = Snapshot(last.before)
           /\ Halted(cpus[last.cpu])

\* C19: CPU.step returns halted if and only if, after the call, the control
\* unit is in EXECUTE with END decoded and an empty RTN sequence; and once
\* step has returned halted, every later call returns halted and changes no
\* register, memory cell, flag, I/O queue, phase or step index.
C19_HaltCondition == HaltedIffReported /\ HaltedStays

\* A step call has been made on a CPU that had halted after writing to the
\* output port, and has returned True.
C19_Witness ==
    /\ last.op = "step" /\ Halted(last.before) /\ last.finished
    /\ last.before.components["OUT"].contents # ExampleContents

-----------------------------------------------------------------------------
(* C20: one RTN step per call, and the step index stays in range.          *)

\* The index of the step a step_cycle call runs on the CPU `before`: the
\* current index, or 0 when the call starts with a phase change.
IndexAtCall(before) ==
    IF before.cu.RTN_sequence_index >= Len(before.cu.RTN_sequence) THEN 0
    ELSE before.cu.RTN_sequence_index

\* The call ran the step at index i of the sequence and left the index at
\* i + 1: last_RTNStep is the step executed.
RanStepAt(before, after, i) ==
    /\ after.cu.RTN_sequence_index = i + 1
    /\ after.cu.last_RTNStep = after.cu.RTN_sequence[i + 1]
    /\ before.cu.RTN_sequence_index < Len(before.cu.RTN_sequence)
           => after.cu.last_RTNStep = before.cu.RTN_sequence[i + 1]

\* A step call that returned False ran exactly the step at the current
\* index.
OneStepPerCall ==
    (StepReturned /\ ~last.finished)
        => RanStepAt(last.before, cpus[last.cpu], IndexAtCall(last.before))

\* 0 <= index <= len(sequence) in every CPU.
IndexInRange ==
    \A i \in 1..Len(cpus) :
        /\ 0 <= cpus[i].cu.RTN_sequence_index
        /\ cpus[i].cu.RTN_sequence_index <= Len(cpus[i].cu.RTN_sequence)

\* C20: every step_cycle call that does not report halted executes exactly
\* one RTN step, the one at the current index i of the current sequence
\* (after the phase change, if any, made at the start of the call), and
\* leaves the index at i + 1; and 0 <= index <= len(sequence) in every
\* reachable state, also across the replacement of the DECODE sequence by
\* the long-operand fetch sequence inside the decode step.
C20_OneStepIndexInRange == OneStepPerCall /\ IndexInRange

\* The decode step of a long-operand instruction has just replaced the
\* sequence, and the index stands at 1.
C20_Witness ==
    /\ StepReturned /\ ~last.finished
    /\ last.before.cu.current_phase = "fetch"
    /\ cpus[last.cpu].cu.current_phase = "decode"
    /\ cpus[last.cpu].cu.RTN_sequence = FETCH_LONG_OPERAND_RTNSteps
    /\ cpus[last.cpu].cu.RTN_sequence_index = 1

-----------------------------------------------------------------------------
(* Running machine programs: the words are given to load_program as they   *)
(* are, without the assembler.                                             *)

\* The opcode of the definition with this mnemonic and addressing mode.
Opcode(mnemonic, mode) ==
    LET Is(d) == d.mnemonic = mnemonic /\ d.addressing_mode = mode
    IN SelectSeq(instruction_set, Is)[1].opcode

\* The words of an instruction with a long operand: the instruction word,
\* then the operand word.
Long(mnemonic, mode, literal) == << Opcode(mnemonic, mode) * 256, literal >>

\* The word of an instruction without a long operand: opcode in the high
\* byte, operand in the low byte.
Short(mnemonic, mode, operand) == << Opcode(mnemonic, mode) * 256 + operand >>

\* The word of END.
End == Short("END", NONE, 0)

\* cpu.load_program(program) with one of the given lists of words
LoadMachineProgram(programs) ==
    /\ \E i \in 1..Len(cpus) :
        /\ ~Loaded(cpus[i])
        /\ \E program \in programs :
            cpus' = [cpus EXCEPT ![i] = load_program(@, program)]
        /\ last' = Called("load_program", NoneMsg, FALSE, i, cpus[i])
    /\ UNCHANGED <<asm, calls, CYCLE_PHASES, unit>>

\* The cell M[address] of the CPU (0 for an address outside the memory).
M(c, address) == MemoryGet(c.components["RAM_DATA"].memory, address).value

\* The value of the named register of the CPU.
Reg(c, name) == c.components[name]._value

\* CPU.step calls followed on the CPU of SpecExec.
MaxExecCalls == 60

\* Calls enough to go from the start of a fetch to the end of the decode
\* phase: 5 fetch steps, the decode step, 4 steps for a long operand.
FetchDecodeCalls == 10

\* The next step call starts the fetch of an instruction: the CPU has just
\* been loaded, or the sequence of the EXECUTE phase has been run to its end.
FetchStarts(c) ==
    /\ Loaded(c)
    /\ c.cu.RTN_sequence # << >>
    /\ \/ c.cu.current_phase = "fetch" /\ c.cu.RTN_sequence_index = 0
       \/ /\ c.cu.current_phase = "execute"
          /\ c.cu.RTN_sequence_index >= Len(c.cu.RTN_sequence)

\* The decode phase has been run to its end: the next step call enters
\* EXECUTE.
EntersExecute(c) ==
    /\ c.cu.current_phase = "decode"
    /\ c.cu.RTN_sequence_index >= Len(c.cu.RTN_sequence)

RECURSIVE ToExecute(_, _)
\* CPU.step called on r.c until the next call would enter EXECUTE, at most
\* `fuel` times; r is the outcome of the last call.
ToExecute(r, fuel) ==
    IF r.raised # NoneMsg \/ EntersExecute(r.c) \/ fuel = 0 THEN r
    ELSE ToExecute(CPU_step(r.c, r.CYCLE_PHASES), fuel - 1)

\* ToExecute from the CPU c, the iterator at `position`.
FetchAndDecode(c, position) ==
    ToExecute([raised |-> NoneMsg, finished |-> FALSE, c |-> c,
               CYCLE_PHASES |-> position], FetchDecodeCalls)

-----------------------------------------------------------------------------
(* C21: what the fetch and decode phases leave for EXECUTE.                *)

\* Programs whose instructions are fetched from addresses 0, 1, 2, ... and,
\* after a jump, from the last address 0xFFFF (where the memory holds 0, the
\* word of LDM, or the word of OUT stored there by the program).
FetchPrograms ==
    { Long("LDM", IMMEDIATE, 7) \o Short("OUT", NONE, 0)
          \o Short("INC", REGISTER, 1) \o Long("LDR", IMMEDIATE, 3) \o End,
      Short("IN", NONE, 9) \o Long("JMP", IMMEDIATE, 65535),
      Long("LDM", IMMEDIATE, 5120) \o Long("STO", DIRECT, 65535)
          \o Long("JMP", IMMEDIATE, 65535) }

\* The instruction word w fetched from address a has been decoded in c:
\* what the control unit finds on entering EXECUTE.
ReadyToExecute(c, a, w) ==
    IF instruction_set[(w \div 256) + 1].long_operand
    THEN /\ Reg(c, "MDR") = M(c, (a + 1) % WordModulus)
         /\ Reg(c, "PC") = (a + 2) % WordModulus
    ELSE /\ c.cu.operand = w % 256
         /\ Reg(c, "PC") = (a + 1) % WordModulus

\* The fetch that starts in c, at the address in PC, ends (if the word
\* there is an instruction) in a state that is ready to execute it.
FetchedReady(c, r) ==
    r.raised = NoneMsg
        => /\ EntersExecute(r.c)
           /\ ReadyToExecute(r.c, Reg(c, "PC"), M(c, Reg(c, "PC")))

\* C21: for an instruction fetched from address a, when the control unit
\* enters EXECUTE: a long-operand instruction has MDR = M[a + 1] and
\* PC = (a + 2) mod 2^16, a short one has the low byte of its word as
\* operand and PC = (a + 1) mod 2^16.
C21_OperandAndPcAtExecute ==
    \A i \in 1..Len(cpus) :
        FetchStarts(cpus[i])
            => FetchedReady(cpus[i], FetchAndDecode(cpus[i], CYCLE_PHASES))

\* A fetch starts at the last address of the memory.
C21_Witness ==
    /\ Len(cpus) = 1 /\ FetchStarts(cpus[1])
    /\ Reg(cpus[1], "PC") = WordModulus - 1
    /\ M(cpus[1], WordModulus - 1) = 5120

-----------------------------------------------------------------------------
(* C22: the data-movement instructions.                                    *)

\* Calls enough to run one instruction from the start of its fetch to the
\* end of its EXECUTE sequence (7 steps at most, for LDI and STI).
InstructionCalls == FetchDecodeCalls + 7

\* The sequence of the EXECUTE phase has been run to its end.
ExecuteEnded(c) ==
    /\ c.cu.current_phase = "execute"
    /\ c.cu.RTN_sequence_index >= Len(c.cu.RTN_sequence)

RECURSIVE ToEndOfExecute(_, _)
\* CPU.step called on r.c until the EXECUTE sequence has been run to its
\* end, at most `fuel` times; r is the outcome of the last call.
ToEndOfExecute(r, fuel) ==
    IF r.raised # NoneMsg \/ ExecuteEnded(r.c) \/ fuel = 0 THEN r
    ELSE ToEndOfExecute(CPU_step(r.c, r.CYCLE_PHASES), fuel - 1)

\* The instruction whose fetch starts in c, run from fetch to the end of
\* EXECUTE.
RunInstruction(c, position) ==
    ToEndOfExecute(CPU_step(c, position), InstructionCalls - 1)

\* The definition of the instruction of the word, None for an opcode that
\* is not in the instruction set.
DefinitionOf(word) ==
    IF (word \div 256) + 1 \in DOMAIN instruction_set
    THEN instruction_set[(word \div 256) + 1]
    ELSE [mnemonic |-> NoneMsg, opcode |-> NoneInt,
          addressing_mode |-> NoneMsg, long_operand |-> FALSE]

\* The definition of the instruction at the address in PC.
DefinitionAtPC(c) == DefinitionOf(M(c, Reg(c, "PC")))

\* The long operand of the instruction at the address in PC.
LiteralAtPC(c) == M(c, (Reg(c, "PC") + 1) % WordModulus)

\* The effective address of the instruction at the address in PC.
EffectiveAddress(c) ==
    CASE DefinitionAtPC(c).addressing_mode = DIRECT -> LiteralAtPC(c)
      [] DefinitionAtPC(c).addressing_mode = INDIRECT -> M(c, LiteralAtPC(c))
      [] DefinitionAtPC(c).addressing_mode = INDEXED ->
             (LiteralAtPC(c) + Reg(c, "IX")) % WordModulus

\* Data words of the programs, at addresses 7 to 11.
MoveData == << 0, 10, 4660, 48879, 255 >>

\* LDR #ix, LDM #acc, the instruction with its literal, END, the data.
MoveProgram(definition, literal, ix, acc) ==
    Long("LDR", IMMEDIATE, ix) \o Long("LDM", IMMEDIATE, acc)
        \o Long(definition[1], definition[2], literal) \o End \o MoveData

MovePrograms ==
    { MoveProgram(definition, literal, ix, acc) :
          definition \in { <<"LDM", IMMEDIATE>>, <<"LDD", DIRECT>>,
                           <<"LDI", INDIRECT>>, <<"LDX", INDEXED>>,
                           <<"STO", DIRECT>>, <<"STI", INDIRECT>>,
                           <<"STX", INDEXED>> },
          literal \in {7, 8, 65535}, ix \in {3, 11}, acc \in {0, 4242} }

\* What the instruction table says of the instruction that is fetched in
\* c and has been run to e.
MovedAsTabled(c, e) ==
    /\ Reg(e, "IX") = Reg(c, "IX")
    /\ CASE DefinitionAtPC(c).mnemonic = "LDM" ->
                /\ Reg(e, "ACC") = LiteralAtPC(c)
                /\ e.components["RAM_DATA"].memory
                       = c.components["RAM_DATA"].memory
         [] DefinitionAtPC(c).mnemonic \in {"LDD", "LDI", "LDX"} ->
                /\ Reg(e, "ACC") = M(c, EffectiveAddress(c))
                /\ e.components["RAM_DATA"].memory
                       = c.components["RAM_DATA"].memory
         [] DefinitionAtPC(c).mnemonic \in {"STO", "STI", "STX"} ->
                /\ Reg(e, "ACC") = Reg(c, "ACC")
                /\ e.components["RAM_DATA"].memory
                       = MemorySet(c.components["RAM_DATA"].memory,
                                   EffectiveAddress(c), Reg(c, "ACC"))
         [] OTHER -> TRUE

\* The instruction fetched in c runs to the end of its EXECUTE sequence
\* without an error and with the tabled effect.
MovesData(c, r) ==
    /\ r.raised = NoneMsg /\ ExecuteEnded(r.c)
    /\ MovedAsTabled(c, r.c)

\* A fetch of a data-movement instruction starts in c.
MoveStarts(c) ==
    /\ FetchStarts(c)
    /\ DefinitionAtPC(c).mnemonic
           \in {"LDM", "LDD", "LDI", "LDX", "STO", "STI", "STX"}

\* C22: run from fetch to the end of EXECUTE, LDM sets ACC to the literal,
\* LDD, LDI and LDX set ACC to M[EA], STO, STI and STX set M[EA] to ACC, with
\* EA the literal, M[literal] or (literal + IX) mod 2^16; no other memory
\* cell changes, and IX and (for stores) ACC keep their values.
C22_DataMovement ==
    \A i \in 1..Len(cpus) :
        MoveStarts(cpus[i])
            => MovesData(cpus[i], RunInstruction(cpus[i], CYCLE_PHASES))

\* An indexed store whose address wraps round is about to be fetched.
C22_Witness ==
    /\ Len(cpus) = 1 /\ MoveStarts(cpus[1])
    /\ DefinitionAtPC(cpus[1]).mnemonic = "STX"
    /\ LiteralAtPC(cpus[1]) = 65535 /\ Reg(cpus[1], "IX") = 11
    /\ Reg(cpus[1], "ACC") = 4242

-----------------------------------------------------------------------------
(* C23: ADD, SUB, AND, OR and XOR.                                         *)

\* LDM #a, then the instruction: on the literal b, or on the cell at address
\* 5 that holds b; END.
ArithmeticProgram(mnemonic, mode, a, b) ==
    IF mode = IMMEDIATE
    THEN Long("LDM", IMMEDIATE, a) \o Long(mnemonic, mode, b) \o End
    ELSE Long("LDM", IMMEDIATE, a) \o Long(mnemonic, mode, 5) \o End
             \o << b >>

ArithmeticPrograms ==
    { ArithmeticProgram(mnemonic, mode, a, b) :
          mnemonic \in {"ADD", "SUB", "AND", "OR", "XOR"},
          mode \in {IMMEDIATE, DIRECT},
          a \in {0, 1, 43690, 65535}, b \in {0, 1, 255, 65535} }

\* (a op b) mod 2^16
Operation(mnemonic, a, b) ==
    CASE mnemonic = "ADD" -> (a + b) % WordModulus
      [] mnemonic = "SUB" -> (a - b) % WordModulus
      [] mnemonic = "AND" -> Bitwise("and", a, b, WORD_SIZE)
      [] mnemonic = "OR" -> Bitwise("or", a, b, WORD_SIZE)
      [] mnemonic = "XOR" -> Bitwise("xor", a, b, WORD_SIZE)

\* The source value of the instruction at the address in PC: its literal,
\* or the cell the literal points to.
SourceValue(c) ==
    IF DefinitionAtPC(c).addressing_mode = DIRECT
    THEN M(c, LiteralAtPC(c)) ELSE LiteralAtPC(c)

\* A fetch of ADD, SUB, AND, OR or XOR starts in c.
ArithmeticStarts(c) ==
    /\ FetchStarts(c)
    /\ DefinitionAtPC(c).mnemonic \in {"ADD", "SUB", "AND", "OR", "XOR"}

\* The instruction fetched in c runs to the end of its EXECUTE sequence
\* without an error and leaves ACC = (a op b) mod 2^16.
Computes(c, r) ==
    /\ r.raised = NoneMsg /\ ExecuteEnded(r.c)
    /\ Reg(r.c, "ACC") = Operation(DefinitionAtPC(c).mnemonic,
                                   Reg(c, "ACC"), SourceValue(c))

\* C23: for every ACC value a and every source value b, ADD, SUB, AND, OR
\* and XOR (direct or immediate) leave ACC = (a op b) mod 2^16.
C23_Arithmetic ==
    \A i \in 1..Len(cpus) :
        ArithmeticStarts(cpus[i])
            => Computes(cpus[i], RunInstruction(cpus[i], CYCLE_PHASES))

\* C23, the two cases named: 0xFFFF + 1 = 0 and 0 - 1 = 0xFFFF, seen at the
\* end of the EXECUTE sequence of ADD #1 and of SUB #1.
C23_WrapsRound ==
    \A i \in 1..Len(cpus) :
        (ExecuteEnded(cpus[i]) /\ M(cpus[i], 3) = 1 /\ Reg(cpus[i], "PC") = 4)
            => /\ (M(cpus[i], 1) = 65535 /\ M(cpus[i], 2) = 8 * 256)
                   => Reg(cpus[i], "ACC") = 0
               /\ (M(cpus[i], 1) = 0 /\ M(cpus[i], 2) = 10 * 256)
                   => Reg(cpus[i], "ACC") = 65535

\* ADD #1 has run on ACC = 0xFFFF.
C23_Witness ==
    /\ Len(cpus) = 1 /\ ExecuteEnded(cpus[1])
    /\ M(cpus[1], 0) = 0 /\ M(cpus[1], 1) = 65535
    /\ M(cpus[1], 2) = 8 * 256 /\ M(cpus[1], 3) = 1
    /\ Reg(cpus[1], "PC") = 4

-----------------------------------------------------------------------------
(* C24: LSL and LSR.                                                       *)

\* LDM #a, the shift by n, END.
ShiftPrograms ==
    { Long("LDM", IMMEDIATE, a) \o Short(mnemonic, IMMEDIATE, n) \o End :
          mnemonic \in {"LSL", "LSR"}, a \in {1, 32769}, n \in {0, 1, 4} }

\* A fetch of LSL or LSR starts in c.
ShiftStarts(c) ==
    /\ FetchStarts(c)
    /\ DefinitionAtPC(c).mnemonic \in {"LSL", "LSR"}

\* ACC shifted by n, n the low byte of the instruction word.
Shifted(mnemonic, a, n) ==
    IF mnemonic = "LSL" THEN (a * (2 ^ n)) % WordModulus ELSE a \div (2 ^ n)

\* The shift fetched in c runs to the end of its EXECUTE sequence without
\* an error and leaves ACC shifted.
Shifts(c, r) ==
    /\ r.raised = NoneMsg /\ ExecuteEnded(r.c)
    /\ Reg(r.c, "ACC") = Shifted(DefinitionAtPC(c).mnemonic, Reg(c, "ACC"),
                                 M(c, Reg(c, "PC")) % 256)

\* C24: LSL n and LSR n complete without error and leave ACC shifted left
\* by n, mod 2^16, or shifted right by n, n the low 8 bits of the
\* instruction word.
C24_Shifts ==
    \A i \in 1..Len(cpus) :
        ShiftStarts(cpus[i])
            => Shifts(cpus[i], RunInstruction(cpus[i], CYCLE_PHASES))

\* What happens instead: the first EXECUTE step of a shift raises
\* AbnormalComponentUseError, with ACC as it was.
ShiftRaises(c, r) ==
    /\ r.raised = "AbnormalComponentUseError"
    /\ r.c.cu.current_phase = "execute" /\ r.c.cu.RTN_sequence_index = 0
    /\ Reg(r.c, "ACC") = Reg(c, "ACC")

\* C24, what the code does: every shift raises in its first EXECUTE step.
C24_ShiftsRaise ==
    \A i \in 1..Len(cpus) :
        ShiftStarts(cpus[i])
            => ShiftRaises(cpus[i], RunInstruction(cpus[i], CYCLE_PHASES))

\* The EXECUTE step of a shift has just raised.
C24_Raised ==
    /\ last.op = "step" /\ last.raised = "AbnormalComponentUseError"
    /\ HasDefinition(cpus[last.cpu].cu.opcode)
    /\ instruction_set[cpus[last.cpu].cu.opcode + 1].mnemonic = "LSR"

-----------------------------------------------------------------------------
(* C25: the comparison flag.                                               *)

\* LDM #5, CMP #5, ADD #1, CMP #5, END; and LDM #6, CMP 7, CMI 8, END with
\* the cell 7 holding v and the cell 8 holding 7.
ComparePrograms ==
    { Long("LDM", IMMEDIATE, 5) \o Long("CMP", IMMEDIATE, 5)
          \o Long("ADD", IMMEDIATE, 1) \o Long("CMP", IMMEDIATE, 5) \o End }
    \union
    { Long("LDM", IMMEDIATE, 6) \o Long("CMP", DIRECT, 7)
          \o Long("CMI", INDIRECT, 8) \o End \o << v, 7 >> : v \in {6, 9} }

\* The flag of the CPU.
Flag(c) == c.components["CMP_FLAG"].value

\* The last call was a step call that ran the ALU step of a comparison to
\* its end.
CompareStepRan ==
    /\ StepReturned /\ ~last.finished
    /\ cpus[last.cpu].cu.last_RTNStep = ALUOperationStep("MDR", "cmp")

\* The ALU step of a comparison sets the flag to ACC = source (the source
\* value stands in MDR) and leaves ACC and the result of the ALU alone.
CompareStepSetsFlag ==
    CompareStepRan
        => /\ Flag(cpus[last.cpu])
                  = (Reg(last.before, "ACC") = Reg(last.before, "MDR"))
           /\ Reg(cpus[last.cpu], "ACC") = Reg(last.before, "ACC")
           /\ cpus[last.cpu].components["ALU"].result
                  = last.before.components["ALU"].result

\* Any other step call leaves the flag as it was.
OtherStepsKeepFlag ==
    (last.op = "step" /\ ~CompareStepRan)
        => Flag(cpus[last.cpu]) = Flag(last.before)

\* The source value of a comparison: the literal, the cell it points to, or
\* the cell that cell points to.
ComparedValue(c) ==
    CASE DefinitionAtPC(c).addressing_mode = IMMEDIATE -> LiteralAtPC(c)
      [] OTHER -> M(c, EffectiveAddress(c))

\* A fetch of CMP or CMI starts in c.
CompareStarts(c) ==
    FetchStarts(c) /\ DefinitionAtPC(c).mnemonic \in {"CMP", "CMI"}

\* The comparison fetched in c runs to its end and leaves the flag equal to
\* ACC = source value.
Compares(c, r) ==
    /\ r.raised = NoneMsg /\ ExecuteEnded(r.c)
    /\ Flag(r.c) = (Reg(c, "ACC") = ComparedValue(c))
    /\ Reg(r.c, "ACC") = Reg(c, "ACC")

\* Every comparison leaves the flag equal to ACC = source value.
ComparisonsSetFlag ==
    \A i \in 1..Len(cpus) :
        CompareStarts(cpus[i])
            => Compares(cpus[i], RunInstruction(cpus[i], CYCLE_PHASES))

\* C25: in every CPU step, the flag afterwards equals (ACC == source value)
\* if the step is the ALU step of a CMP (direct or immediate) or CMI
\* instruction, and otherwise equals its value before the step; a CMP step
\* changes neither ACC nor the stored ALU result.
C25_FlagOnlyByCompare ==
    CompareStepSetsFlag /\ OtherStepsKeepFlag /\ ComparisonsSetFlag

\* The ALU step of a comparison has cleared a flag that was set, the ALU
\* holding the result of an addition.
C25_Witness ==
    /\ CompareStepRan
    /\ Flag(last.before) /\ ~Flag(cpus[last.cpu])
    /\ cpus[last.cpu].components["ALU"].result = 6

-----------------------------------------------------------------------------
(* C26: the conditional jumps.                                             *)

\* LDM #a, CMP #5, JPE or JPN to `target`, END at 6, END at 8: the jump goes
\* to the next instruction (6) or past it (8), the flag set (a = 5) or
\* cleared (a = 6).
JumpPrograms ==
    { Long("LDM", IMMEDIATE, a) \o Long("CMP", IMMEDIATE, 5)
          \o Long(mnemonic, IMMEDIATE, target) \o End \o << 0 >> \o End :
        a \in {5, 6}, mnemonic \in {"JPE", "JPN"}, target \in {6, 8} }

\* The last call was a step call that ran the EXECUTE step of JPE or JPN.
JumpStepRan ==
    /\ StepReturned /\ ~last.finished
    /\ cpus[last.cpu].cu.last_RTNStep.type = "ConditionalTransferStep"

\* The flag had the value the jump asks for when the step executed.
ConditionMet ==
    cpus[last.cpu].cu.last_RTNStep.condition = Flag(last.before)

\* The operand of the jump: the word before the address of the next
\* instruction.
JumpTarget ==
    M(last.before, (Reg(last.before, "PC") + WordModulus - 1) % WordModulus)

\* The step index has advanced by one over the EXECUTE step.
JumpStepCounted ==
    cpus[last.cpu].cu.RTN_sequence_index = IndexAtCall(last.before) + 1

\* When the condition is not met PC keeps the address of the next
\* instruction.
NotTakenKeepsPC ==
    (JumpStepRan /\ ~ConditionMet)
        => Reg(cpus[last.cpu], "PC") = Reg(last.before, "PC")

\* C26 as stated: when the EXECUTE step of JPE (JPN) has run, PC equals the
\* jump target if and only if the flag was set (cleared) at the moment that
\* step executed; when the condition is not met PC keeps the address of the
\* next instruction and the step index still advances by one.
C26_TargetIffConditionMet ==
    /\ JumpStepRan => (Reg(cpus[last.cpu], "PC") = JumpTarget <=> ConditionMet)
    /\ NotTakenKeepsPC
    /\ JumpStepRan => JumpStepCounted

\* C26, amended: when the EXECUTE step of JPE (JPN) has run, PC equals the
\* jump target if the flag was set (cleared) at the moment that step
\* executed, and otherwise keeps the address of the next instruction, which
\* may be the jump target itself; the step index advances by one in both
\* cases.
C26_JumpsWhenConditionMet ==
    /\ (JumpStepRan /\ ConditionMet) => Reg(cpus[last.cpu], "PC") = JumpTarget
    /\ NotTakenKeepsPC
    /\ JumpStepRan => JumpStepCounted

\* A JPE was not taken, the flag cleared, and PC stays at the next
\* instruction, short of the target.
C26_Witness ==
    /\ JumpStepRan /\ ~ConditionMet
    /\ cpus[last.cpu].cu.last_RTNStep.condition
    /\ Reg(cpus[last.cpu], "PC") = 6 /\ JumpTarget = 8
    /\ JumpStepCounted

-----------------------------------------------------------------------------
(* C27: MOV, INC and DEC on the register the operand names.                *)

\* LDR #ix, LDM #acc, then MOV, INC or DEC on the register of index r, END:
\* the registers hold small values, 0 and 65535.
RegisterPrograms ==
    { Long("LDR", IMMEDIATE, v[1]) \o Long("LDM", IMMEDIATE, v[2])
          \o Short(mnemonic, REGISTER, r) \o End :
        v \in { << 0, 7 >>, << 65535, 65535 >>, << 3, 0 >> },
        mnemonic \in {"MOV", "INC", "DEC"}, r \in 0..5 }

\* The instruction in CIR before the last call.
DecodedDefinition == DefinitionOf(Reg(last.before, "CIR"))

\* The low byte of the instruction in CIR before the last call.
OperandLowByte == Reg(last.before, "CIR") % 256

\* The last call was a step call that entered EXECUTE for MOV, INC or DEC.
RegisterStepCalled ==
    /\ last.op = "step" /\ EntersExecute(last.before)
    /\ DecodedDefinition.mnemonic \in {"MOV", "INC", "DEC"}

\* The register of index r: ACC 0, IX 1, PC 2, MAR 3, MDR 4, CIR 5.
Indexed(r) == << "ACC", "IX", "PC", "MAR", "MDR", "CIR" >>[r + 1]

\* The value the instruction gives to a register holding `value`.
RegisterResult(mnemonic, value, acc) ==
    CASE mnemonic = "MOV" -> acc
      [] mnemonic = "INC" -> (value + 1) % WordModulus
      [] mnemonic = "DEC" -> (value + WordModulus - 1) % WordModulus

\* The call ran the EXECUTE step on the register `name` and on no other.
OnlyRegisterChanged(before, after, name) ==
    /\ Reg(after, name)
           = RegisterResult(DecodedDefinition.mnemonic, Reg(before, name),
                            Reg(before, "ACC"))
    /\ \A other \in RegisterNames \ {name} :
           Reg(after, other) = Reg(before, other)

\* C27: for every operand low byte r that is a register index (ACC 0, IX 1,
\* PC 2, MAR 3, MDR 4, CIR 5), MOV sets register r to the value of ACC, INC
\* sets register r to (value + 1) mod 2^16 and DEC sets it to
\* (value - 1) mod 2^16, and no register other than r is changed by the
\* EXECUTE step.
C27_RegisterOperations ==
    (RegisterStepCalled /\ OperandLowByte \in 0..5)
        => /\ StepReturned /\ ~last.finished
           /\ OnlyRegisterChanged(last.before, cpus[last.cpu],
                                  Indexed(OperandLowByte))

\* DEC has taken IX from 0 to 65535.
C27_Witness ==
    /\ RegisterStepCalled /\ StepReturned
    /\ DecodedDefinition.mnemonic = "DEC" /\ OperandLowByte = 1
    /\ Reg(last.before, "IX") = 0 /\ Reg(cpus[last.cpu], "IX") = 65535

-----------------------------------------------------------------------------
(* C28: MOV, INC and DEC on an operand that names no register.             *)

\* LDM #7, CMP #7, then MOV, INC or DEC with the low byte r, END: r is the
\* first value past the register indices, a larger one and the largest.
InvalidRegisterPrograms ==
    { Long("LDM", IMMEDIATE, 7) \o Long("CMP", IMMEDIATE, 7)
          \o Short(mnemonic, REGISTER, r) \o End :
        mnemonic \in {"MOV", "INC", "DEC"}, r \in {6, 9, 255} }

\* The last call was a step call with the EXECUTE step of MOV, INC or DEC to
\* run: the call entered EXECUTE, or an earlier call did and raised.
RegisterStepDue ==
    /\ last.op = "step"
    /\ \/ EntersExecute(last.before)
       \/ /\ last.before.cu.current_phase = "execute"
          /\ last.before.cu.RTN_sequence_index
                 < Len(last.before.cu.RTN_sequence)
    /\ DecodedDefinition.mnemonic \in {"MOV", "INC", "DEC"}

\* Registers, memory and flag are the same in the two CPUs.
SameCoreState(before, after) ==
    /\ \A name \in RegisterNames : Reg(after, name) = Reg(before, name)
    /\ after.components["RAM_DATA"].memory
           = before.components["RAM_DATA"].memory
    /\ Flag(after) = Flag(before)

\* C28: for MOV, INC and DEC, if the operand low byte of the decoded
\* instruction is not one of the register indices 0..5, CPU.step raises an
\* error when the EXECUTE step runs, and that call changes no register value,
\* memory cell or flag.
C28_InvalidRegisterRaises ==
    (RegisterStepDue /\ OperandLowByte \notin 0..5)
        => /\ last.raised # NoneMsg
           /\ SameCoreState(last.before, cpus[last.cpu])

\* MOV on the operand 9 has raised, the flag set and ACC holding 7.
C28_Witness ==
    /\ RegisterStepDue /\ OperandLowByte = 9
    /\ DecodedDefinition.mnemonic = "MOV"
    /\ last.raised = ValueError
    /\ Flag(cpus[last.cpu]) /\ Reg(cpus[last.cpu], "ACC") = 7

-----------------------------------------------------------------------------
(* C29: IN on an empty input queue.                                        *)

\* Eight IN, END: the input queue of a new CPU holds the seven characters
\* of "example".
InputPrograms ==
    { Short("IN", NONE, 0) \o Short("IN", NONE, 0) \o Short("IN", NONE, 0)
          \o Short("IN", NONE, 0) \o Short("IN", NONE, 0)
          \o Short("IN", NONE, 0) \o Short("IN", NONE, 0)
          \o Short("IN", NONE, 0) \o End }

\* Bytes given to the input queue.
InputBytes == {0, 90, 255}

\* cpu.io_in.write(byte) on a CPU whose input queue is empty
Feed ==
    /\ \E i \in 1..Len(cpus), byte \in InputBytes :
        /\ Loaded(cpus[i])
        /\ cpus[i].components["IN"].contents = << >>
        /\ \E r \in {ComponentWrite(cpus[i], "IN", byte, FALSE)} :
            /\ cpus' = [cpus EXCEPT ![i] = r.c]
            /\ last' = Called("write", r.raised, FALSE, i, cpus[i])
    /\ UNCHANGED <<asm, calls, CYCLE_PHASES, unit>>

\* The last call was a step call with the transfer step of IN to run: the
\* call entered EXECUTE, or an earlier call did and raised.
InputStepDue ==
    /\ last.op = "step"
    /\ \/ EntersExecute(last.before)
       \/ /\ last.before.cu.current_phase = "execute"
          /\ last.before.cu.RTN_sequence_index
                 < Len(last.before.cu.RTN_sequence)
    /\ DecodedDefinition.mnemonic = "IN"

\* The input queue before the last call.
InputBefore == last.before.components["IN"].contents

\* On an empty queue ACC keeps its value and the CPU is not halted.
EmptyInputKeepsACC ==
    (InputStepDue /\ InputBefore = << >>)
        => /\ Reg(cpus[last.cpu], "ACC") = Reg(last.before, "ACC")
           /\ ~last.finished /\ ~Halted(cpus[last.cpu])

\* On an empty queue the call raises nothing.
EmptyInputDoesNotRaise ==
    (InputStepDue /\ InputBefore = << >>) => last.raised = NoneMsg

\* With a byte in the queue the transfer completes: ACC is the byte at the
\* head, which leaves the queue.
InputCompletes ==
    (InputStepDue /\ InputBefore # << >>)
        => /\ StepReturned /\ ~last.finished
           /\ Reg(cpus[last.cpu], "ACC") = Head(InputBefore)
           /\ cpus[last.cpu].components["IN"].contents = Tail(InputBefore)
           /\ cpus[last.cpu].cu.RTN_sequence_index = 1

\* C29: when the transfer step of an IN instruction runs while the input
\* queue is empty, ACC keeps its pre-read value, the step neither halts the
\* CPU nor raises a fatal error, and once a byte has been added to the input
\* queue the IN transfer completes with ACC equal to that byte.
C29_EmptyInputWaits ==
    EmptyInputKeepsACC /\ EmptyInputDoesNotRaise /\ InputCompletes

\* The eighth IN has found the queue empty and raised, ACC still holding
\* the last character read.
C29_EmptyInputRaised ==
    /\ InputStepDue /\ InputBefore = << >>
    /\ last.raised = "TypeError"
    /\ Reg(cpus[last.cpu], "ACC") = 101

\* The eighth IN has completed with the byte 90 given to the queue after a
\* first try had raised.
C29_CompletedAfterFeed ==
    /\ InputStepDue /\ StepReturned
    /\ last.before.cu.current_phase = "execute"
    /\ InputBefore = << 90 >>
    /\ Reg(cpus[last.cpu], "ACC") = 90

-----------------------------------------------------------------------------
(* C30: the output queue.                                                  *)

\* LDM #v, OUT, END: v is a byte, the first value past a byte, a word with
\* two nonzero bytes and the largest word.
OutputPrograms ==
    { Long("LDM", IMMEDIATE, v) \o Short("OUT", NONE, 0) \o End :
        v \in {0, 65, 255, 256, 4660, 65535} }

\* The output queue of the CPU.
Output(c) == c.components["OUT"].contents

\* Every element of every output queue is a byte.
OutputHoldsBytes ==
    \A i \in 1..Len(cpus) :
        \A k \in 1..Len(Output(cpus[i])) : Output(cpus[i])[k] \in 0..255

\* The last call was a step call that entered EXECUTE for OUT.
OutputStepCalled ==
    /\ last.op = "step" /\ EntersExecute(last.before)
    /\ DecodedDefinition.mnemonic = "OUT"

\* OUT appends one element, the low byte of ACC, at the tail of the queue.
OutputAppendsLowByte ==
    OutputStepCalled
        => /\ StepReturned
           /\ Output(cpus[last.cpu])
                  = Append(Output(last.before), Reg(last.before, "ACC") % 256)

\* C30: in every reachable state, every element of the output port queue is
\* a byte in 0..255: for every ACC value in 0..65535, OUT appends exactly one
\* element, the low byte of ACC, at the tail of the queue.
C30_OutputBytes == OutputHoldsBytes /\ OutputAppendsLowByte

\* OUT appends exactly one element, the whole value of ACC.
OutputAppendsACC ==
    OutputStepCalled
        => /\ StepReturned
           /\ Output(cpus[last.cpu])
                  = Append(Output(last.before), Reg(last.before, "ACC"))

\* OUT with ACC = 4660 has put 4660 at the tail of the output queue.
C30_WordInQueue ==
    /\ OutputStepCalled /\ Reg(last.before, "ACC") = 4660
    /\ Output(cpus[last.cpu])[Len(Output(cpus[last.cpu]))] = 4660

-----------------------------------------------------------------------------
(* The components on their own: one object, its methods called directly.  *)

\* Calls followed on one component.
MaxUnitCalls == 3

\* A call on the component: the method, its argument, what it raised and
\* returned, and the component before the call.
UnitCalled(op, arg, raised, value, before) ==
    [op |-> op, arg |-> arg, raised |-> raised, value |-> value,
     before |-> before]

\* One component constructed, nothing called on it yet.
UnitConstructed(units) ==
    /\ asm = AssemblerStepper(<< LineEnd >>)
    /\ last = UnitCalled("new", NoneInt, NoneMsg, NoneInt, NoUnit)
    /\ calls = 0
    /\ cpus = << >>
    /\ CYCLE_PHASES = 0
    /\ unit \in units

\* The component becomes after, the call is recorded.
UnitCall(bound, op, arg, raised, value, after) ==
    /\ calls < bound
    /\ calls' = calls + 1
    /\ unit' = after
    /\ last' = UnitCalled(op, arg, raised, value, unit)
    /\ UNCHANGED <<asm, cpus, CYCLE_PHASES>>

-----------------------------------------------------------------------------
(* Register.  The displayer is the observer bound to the register; the     *)
(* model keeps the number of calls of its update_display.                  *)

\* Register(name) with an observer bound, holding value
Register(name, value) ==
    [name |-> name, _control |-> NoneMsg, _value |-> value, displayer |-> 0]

\* Values written to a register and offsets of inc and dec.
RegisterInputs == { -65537, -1, 0, 1, 7, 65535, 65536, 70000 }

\* Values a register holds when the calls start.
RegisterValues == { 0, 1, 534, 65534, 65535 }

\* CPUComponent._update_display(): displayer.update_display()
_update_display(reg) == [reg EXCEPT !.displayer = @ + 1]

\* A store of the value as given.
StoreUnmasked(reg, value) == _update_display([reg EXCEPT !._value = value])

\* Register._set_value(value)
_set_value(reg, value) ==
    _update_display([reg EXCEPT !._value = value % (2 ^ WORD_SIZE)])

\* Register._set_control(control)
_set_control(reg, control) ==
    _update_display([reg EXCEPT !._control = control])

\* Register.inc(offset)
inc(reg, offset) == _set_control(_set_value(reg, reg._value + offset), "inc")

\* Register.dec(offset)
dec(reg, offset) == _set_control(_set_value(reg, reg._value - offset), "dec")

\* Register.write(value)
write(reg, value) == _set_control(_set_value(reg, value), "w")

\* Register.read(): the register after the call; the value returned is
\* its _value
read(reg) == _set_control(reg, "r")

\* Register.reset_control()
reset_control(reg) == _update_display(_set_control(reg, NoneMsg))

RegisterWrite ==
    \E value \in RegisterInputs :
        UnitCall(MaxUnitCalls, "write", value, NoneMsg, NoneInt,
                 write(unit, value))

RegisterInc ==
    \E offset \in RegisterInputs :
        UnitCall(MaxUnitCalls, "inc", offset, NoneMsg, NoneInt,
                 inc(unit, offset))

RegisterDec ==
    \E offset \in RegisterInputs :
        UnitCall(MaxUnitCalls, "dec", offset, NoneMsg, NoneInt,
                 dec(unit, offset))

RegisterRead ==
    UnitCall(MaxUnitCalls, "read", NoneInt, NoneMsg, unit._value, read(unit))

RegisterResetControl ==
    UnitCall(MaxUnitCalls, "reset_control", NoneInt, NoneMsg, NoneInt,
             reset_control(unit))

InitRegister == UnitConstructed({ Register("IX", v) : v \in RegisterValues })

NextRegister ==
    \/ RegisterWrite
    \/ RegisterInc
    \/ RegisterDec
    \/ RegisterRead
    \/ RegisterResetControl

SpecRegister == InitRegister /\ [][NextRegister]_vars

-----------------------------------------------------------------------------
(* C33 *)

\* The mathematical residue of x modulo 2^16, in 0..65535: the one word
\* among x + 65536 k.
Residue(x) ==
    CHOOSE r \in { x + k * 65536 : k \in -4..4 } : 0 <= r /\ r <= 65535

\* write(x) stores x mod 2^16.
WriteStoresResidue ==
    last.op = "write" => unit._value = Residue(last.arg)

\* inc(n) stores (v + n) mod 2^16.
IncStoresResidue ==
    last.op = "inc" => unit._value = Residue(last.before._value + last.arg)

\* dec(n) stores (v - n) mod 2^16.
DecStoresResidue ==
    last.op = "dec" => unit._value = Residue(last.before._value - last.arg)

\* inc(n) followed by dec(n) restores the value.
IncThenDecRestores ==
    \A n \in RegisterInputs : dec(inc(unit, n), n)._value = unit._value

\* C33: a register that holds a word v stores x mod 2^16 on write(x),
\* (v + n) mod 2^16 on inc(n) and (v - n) mod 2^16 on dec(n), and inc(n)
\* followed by dec(n) gives v back; write(-1) stores 0xFFFF and
\* write(0x10000) stores 0.
C33_RegisterArithmetic ==
    unit # NoUnit =>
        /\ unit._value \in 0..(WordModulus - 1)
        /\ WriteStoresResidue
        /\ IncStoresResidue
        /\ DecStoresResidue
        /\ IncThenDecRestores
        /\ write(unit, -1)._value = OxFFFF
        /\ write(unit, 65536)._value = 0

\* C33 witness: a register at 65535 was incremented by 7 and holds 6.
C33_Witness ==
    /\ last.op = "inc"
    /\ last.before._value = 65535
    /\ last.arg = 7
    /\ unit._value = 6

\* C33 witness: a register at 0 was decremented by 1 and holds 0xFFFF.
C33_WitnessDec ==
    /\ last.op = "dec"
    /\ last.before._value = 0
    /\ last.arg = 1
    /\ unit._value = OxFFFF

\* C33 witness: -1 was written and the register holds 0xFFFF.
C33_WitnessWrite ==
    /\ last.op = "write"
    /\ last.arg = -1
    /\ unit._value = OxFFFF

-----------------------------------------------------------------------------
(* C36 *)

\* The methods of Register that change the register.
Mutators == { "write", "inc", "dec", "reset_control" }

\* update_display calls made on the observer by the last call.
Notifications == unit.displayer - last.before.displayer

\* C36: each call of write, inc, dec or reset_control on a register calls
\* update_display of the bound observer exactly once.
C36_MutatorsNotifyOnce == last.op \in Mutators => Notifications = 1

\* Each call of a mutator notifies the observer twice, a read once.
MutatorsNotifyTwice ==
    /\ last.op \in Mutators => Notifications = 2
    /\ last.op = "read" => Notifications = 1

\* C36: write(7) on a register made two calls of update_display.
C36_WriteNotifiedTwice ==
    /\ last.op = "write"
    /\ last.arg = 7
    /\ Notifications = 2

-----------------------------------------------------------------------------
(* RAM with its address port, called directly.                             *)

\* Calls followed on one RAM.
MaxRamCalls == 5

\* Addresses written to the address port, and data written to the RAM.
RamAddresses == { -1, 0, 1, 65535, 65536 }
RamData == { -1, 0, 5, 9, 65535, 70000 }

\* Those of the addresses that the memory has.
RamWordAddresses == { a \in RamAddresses : 0 <= a /\ a <= 65535 }

\* RAM(): the companion RAMAddress at 0, every cell 0
NewRAM ==
    [name |-> "RAM_DATA",
     address_comp |-> [name |-> "RAM_ADDRESS", address |-> 0],
     memory |-> EmptyDict, data |-> NoneInt]

\* RAMAddress.write(address) on the companion of the RAM
RAMAddressWrite(ram, address) ==
    [ram EXCEPT !.address_comp.address = address]

\* A write that clears the cells of the other addresses.
RAMWriteAlone(ram, data) ==
    [ram EXCEPT !.memory =
        MemorySet(EmptyDict, ram.address_comp.address,
                  data % (2 ^ WORD_SIZE))]

\* RAM.write(data)
RAMWrite(ram, data) ==
    [ram EXCEPT !.memory =
        MemorySet(@, ram.address_comp.address, data % (2 ^ WORD_SIZE))]

\* What RAM.read() returns: memory.get(address_comp.read())
RAMReturns(ram) == MemoryGet(ram.memory, ram.address_comp.address)

\* RAM.read(): the RAM after the call
RAMRead(ram) ==
    [ram EXCEPT !.data = IF RAMReturns(ram).none THEN NoneInt
                         ELSE RAMReturns(ram).value]

\* A call on the RAM; written keeps, for each value the address port held
\* during a write, the word of the last such write.
RamCalled(op, arg, value, before, written) ==
    [op |-> op, arg |-> arg, raised |-> NoneMsg, value |-> value,
     before |-> before, written |-> written]

RamCall(addresses, op, arg, value, after, written) ==
    /\ calls < MaxRamCalls
    /\ unit.address_comp.address \in addresses
    /\ calls' = calls + 1
    /\ unit' = after
    /\ last' = RamCalled(op, arg, value, unit, written)
    /\ UNCHANGED <<asm, cpus, CYCLE_PHASES>>

RamAddressWrite(addresses) ==
    \E address \in addresses :
        RamCall(addresses, "RAMAddress.write", address, NoneInt,
                RAMAddressWrite(unit, address), last.written)

RamDataWrite(addresses) ==
    \E data \in RamData :
        RamCall(addresses, "RAM.write", data, NoneInt, RAMWrite(unit, data),
                DictSet(last.written, unit.address_comp.address,
                        Residue(data)))

RamDataRead(addresses) ==
    RamCall(addresses, "RAM.read", NoneInt,
            IF RAMReturns(unit).none THEN NoneInt ELSE RAMReturns(unit).value,
            RAMRead(unit), last.written)

InitRam ==
    /\ asm = AssemblerStepper(<< LineEnd >>)
    /\ last = RamCalled("new", NoneInt, NoneInt, NoUnit, EmptyDict)
    /\ calls = 0
    /\ cpus = << >>
    /\ CYCLE_PHASES = 0
    /\ unit = NewRAM

\* Any integer goes to the address port.
NextRam ==
    \/ RamAddressWrite(RamAddresses)
    \/ RamDataWrite(RamAddresses)
    \/ RamDataRead(RamAddresses)

SpecRam == InitRam /\ [][NextRam]_vars

\* Only addresses of the memory go to the address port.
NextRamWords ==
    \/ RamAddressWrite(RamWordAddresses)
    \/ RamDataWrite(RamWordAddresses)
    \/ RamDataRead(RamWordAddresses)

SpecRamWords == InitRam /\ [][NextRamWords]_vars

-----------------------------------------------------------------------------
(* C34 *)

\* The word last written while the address port held its present value,
\* 0 when there was no such write.
LastWritten ==
    IF unit.address_comp.address \in DOMAIN last.written
    THEN last.written[unit.address_comp.address]
    ELSE 0

\* RAM.read() would return, and the last RAM.read() returned, the word
\* last written at the address of the port.
ReadsLastWritten ==
    /\ ~RAMReturns(unit).none
    /\ RAMReturns(unit).value = LastWritten
    /\ last.op = "RAM.read" => last.value = LastWritten

\* RAM.write changed no cell but the one the address port selects.
WriteKeepsOtherCells ==
    last.op = "RAM.write" =>
        \A a \in RamAddresses \ { unit.address_comp.address } :
            MemoryGet(unit.memory, a) = MemoryGet(last.before.memory, a)

\* C34: after any calls of RAMAddress.write and RAM.write, RAM.read()
\* returns the value last written while the address port held its present
\* value, 0 if there was none, and RAM.write changes no other cell.
C34_ReadsLastWrite ==
    unit # NoUnit => ReadsLastWritten /\ WriteKeepsOtherCells

\* C34: 65536 was written to the address port of a RAM in which nothing
\* was written there, and RAM.read() returned None.
C34_ReadReturnedNone ==
    /\ last.op = "RAM.read"
    /\ unit.address_comp.address = 65536
    /\ 65536 \notin DOMAIN last.written
    /\ last.value = NoneInt

\* 70000 was written with the address port at 65535 and RAM.read()
\* returned 4464.
C34_ReadAfterWrites ==
    /\ last.op = "RAM.read"
    /\ unit.address_comp.address = 65535
    /\ last.value = 4464

-----------------------------------------------------------------------------
(* Buses and ALU read and written directly, on the components of a CPU    *)
(* that is loaded and stepped.                                             *)

\* CPU.step calls followed on the CPU whose buses are called.
MaxBusCalls == 24

\* The display buses of the CPU.
Buses == { "ADDRESS_BUS", "INNER_DATA_BUS" }

\* Data of the direct writes.
BusData == { 0, 65535 }

\* Programs with a shift (whose ALU mode raises the invalid-use error in
\* compute), with comparisons and with an output.
BusPrograms == ShiftPrograms \union ComparePrograms \union OutputPrograms

\* A call made directly on a component of a CPU.
DirectCalled(op, component, raised, cpu, before) ==
    [op |-> op, raised |-> raised, finished |-> FALSE, cpu |-> cpu,
     before |-> before, position |-> CYCLE_PHASES, component |-> component]

\* bus.read() on a bus of a CPU
DirectRead ==
    /\ \E i \in 1..Len(cpus), name \in Buses :
        \E r \in { ComponentRead(cpus[i], name) } :
            /\ cpus' = [cpus EXCEPT ![i] = r.c]
            /\ last' = DirectCalled("read", name, r.raised, i, cpus[i])
    /\ UNCHANGED <<asm, calls, CYCLE_PHASES, unit>>

\* bus.write(data) on a bus of a CPU, alu.write(data) on its ALU
DirectWrite ==
    /\ \E i \in 1..Len(cpus), name \in Buses \union {"ALU"}, data \in BusData :
        \E r \in { ComponentWrite(cpus[i], name, data, FALSE) } :
            /\ cpus' = [cpus EXCEPT ![i] = r.c]
            /\ last' = DirectCalled("write", name, r.raised, i, cpus[i])
    /\ UNCHANGED <<asm, calls, CYCLE_PHASES, unit>>

InitBus == Process({ << LineEnd >> })

NextBus ==
    \/ Construct(1)
    \/ LoadMachineProgram(BusPrograms)
    \/ CpuStep(MaxBusCalls)
    \/ DirectRead
    \/ DirectWrite

SpecBus == InitBus /\ [][NextBus]_vars

-----------------------------------------------------------------------------
(* C37 *)

\* The components an RTN step names as source or destination.
StepComponents(rtn_step) ==
    CASE rtn_step.type \in {"SimpleTransferStep", "ConditionalTransferStep"}
             -> { rtn_step.source, rtn_step.destination }
      [] rtn_step.type = "ALUOperationStep" -> { rtn_step.source }
      [] rtn_step.type = "RegOperationStep"
             -> { rtn_step.source, rtn_step.destination }
      [] OTHER -> { }

\* A direct read or write of a bus, or write of the ALU, raised the
\* invalid-use error and left the CPU, its buses and ALU with it, as it was.
DirectUseRaises ==
    last.op \in {"read", "write"} =>
        /\ last.raised = "AbnormalComponentUseError"
        /\ cpus[last.cpu] = last.before

\* No step of the sequence the control unit is running has a bus as its
\* source or destination.
NoStepNamesBus ==
    \A i \in 1..Len(cpus) :
        \A k \in 1..Len(cpus[i].cu.RTN_sequence) :
            StepComponents(cpus[i].cu.RTN_sequence[k]) \cap Buses = { }

\* A step call that raised the invalid-use error was running an ALU
\* operation (ALU.compute in a mode it has no case for), not a transfer.
StepErrorIsOfCompute ==
    (last.op = "step" /\ last.raised = "AbnormalComponentUseError") =>
        cpus[last.cpu].cu.current_RTNStep.type = "ALUOperationStep"

\* C37: Bus.read(), Bus.write(x) and ALU.write(x) called directly always
\* raise the invalid-use error and change nothing, and no RTN step the
\* control unit executes reads or writes a bus.
C37_DirectBusUseRaises ==
    /\ DirectUseRaises
    /\ NoStepNamesBus
    /\ StepErrorIsOfCompute

\* C37 witness: write(65535) was called on the inner data bus of a CPU that
\* has executed transfers over it, and raised.
C37_Witness ==
    /\ last.op = "write"
    /\ last.component = "INNER_DATA_BUS"
    /\ last.raised = "AbnormalComponentUseError"
    /\ last.before.components["INNER_DATA_BUS"].last_connections # << >>
    /\ last.before.cycles > 5

\* C37 witness: read() was called on the address bus and raised.
C37_WitnessRead ==
    /\ last.op = "read"
    /\ last.component = "ADDRESS_BUS"
    /\ last.raised = "AbnormalComponentUseError"
    /\ last.before.cycles > 5

\* C37 witness: write was called on an ALU that has computed, and raised.
C37_WitnessALU ==
    /\ last.op = "write"
    /\ last.component = "ALU"
    /\ last.raised = "AbnormalComponentUseError"
    /\ last.before.components["ALU"].control = "cmp"

-----------------------------------------------------------------------------
(* C35: a counting loop, assembled, loaded and run.  The unit is the       *)
(* observer of the run: the flags the CMP steps produced, and how many     *)
(* times JPN wrote PC and how many times it did not.                       *)

\* The loops count to 1, ..., MaxLoop.
MaxLoop == 3

\* Step calls of the run of the loop that counts to MaxLoop: 18 for LDM and
\* END, 34 for each passage of the loop, and one call more.
LoopCalls == 34 * MaxLoop + 19

\* 'LDM #0', 'LOOP: ADD #1', 'CMP #k', 'JPN LOOP', 'END'
LoopSource(k) ==
    << <<"L","D","M"," ","#","0">>,
       <<"L","O","O","P",":"," ","A","D","D"," ","#","1">>,
       <<"C","M","P"," ","#">> \o DecimalChars(k),
       <<"J","P","N"," ","L","O","O","P">>,
       LineEnd >>

LoopSources == { LoopSource(k) : k \in 1..MaxLoop }

\* AssemblerStepper(source_lines).run_to_completion() for each loop
AssembledLoops ==
    [source_lines \in LoopSources |->
        run_to_completion(AssemblerStepper(source_lines), DefaultMaxSteps)]

\* words = AssemblerStepper(source_lines).run_to_completion()
AssembleLoop ==
    /\ asm = AssemblerStepper(asm.raw_lines)
    /\ \E r \in {AssembledLoops[asm.raw_lines]} :
        /\ asm' = r.self
        /\ last' = Called("run_to_completion", r.raised, FALSE, 0, NoCpu)
    /\ UNCHANGED <<calls, cpus, CYCLE_PHASES, unit>>

\* Nothing observed yet.
NoTally == [name |-> "tally", flags |-> << >>, taken |-> 0, skipped |-> 0]

\* The tally after a step call that went from the CPU b to the outcome r:
\* a step of the ALU in comparison mode adds the flag it left, a
\* conditional transfer counts as taken when PC has changed.
Observed(tally, b, r) ==
    IF r.raised # NoneMsg \/ r.finished THEN tally
    ELSE IF /\ r.c.cu.last_RTNStep.type = "ALUOperationStep"
            /\ r.c.cu.last_RTNStep.control = "cmp"
    THEN [tally EXCEPT !.flags = Append(@, r.c.components["CMP_FLAG"].value)]
    ELSE IF r.c.cu.last_RTNStep.type = "ConditionalTransferStep"
    THEN IF Reg(r.c, "PC") # Reg(b, "PC")
         THEN [tally EXCEPT !.taken = @ + 1]
         ELSE [tally EXCEPT !.skipped = @ + 1]
    ELSE tally

\* cpu.step() on the loaded CPU, observed
ObservedStep(bound) ==
    /\ calls < bound
    /\ \E i \in 1..Len(cpus) :
        /\ Loaded(cpus[i])
        /\ \E r \in {CPU_step(cpus[i], CYCLE_PHASES)} :
            /\ cpus' = [cpus EXCEPT ![i] = r.c]
            /\ CYCLE_PHASES' = r.CYCLE_PHASES
            /\ last' = Called("step", r.raised, r.finished, i, cpus[i])
            /\ unit' = Observed(unit, cpus[i], r)
    /\ calls' = calls + 1
    /\ UNCHANGED asm

InitLoop ==
    /\ \E source_lines \in LoopSources : asm = AssemblerStepper(source_lines)
    /\ last = [op |-> "new", raised |-> NoneMsg, finished |-> FALSE,
               cpu |-> 0, before |-> NoCpu, position |-> 0]
    /\ calls = 0
    /\ cpus = << >>
    /\ CYCLE_PHASES = 0
    /\ unit = NoTally

NextLoop ==
    \/ AssembleLoop
    \/ Construct(1)
    \/ Load
    \/ ObservedStep(LoopCalls)

SpecLoop == InitLoop /\ [][NextLoop]_vars

\* The program is assembled, the CPU constructed and loaded, and step is
\* called as long as the bound of the model allows.
SpecLoopFair ==
    /\ SpecLoop
    /\ WF_vars(AssembleLoop) /\ WF_vars(Construct(1)) /\ WF_vars(Load)
    /\ WF_calls(StepCalled(LoopCalls))

\* The k of the program of this behaviour.
LoopBound == CHOOSE k \in 1..MaxLoop : asm.raw_lines = LoopSource(k)

\* The flags of the comparisons of the loop that counts to k: false k - 1
\* times, then true.
ExpectedFlags(k) == [i \in 1..k |-> i = k]

\* The last step call returned True with ACC = k, after those flags and
\* k - 1 jumps taken and one skipped.
HaltedAsExpected ==
    /\ last.op = "step" /\ last.raised = NoneMsg /\ last.finished
    /\ Reg(cpus[last.cpu], "ACC") = LoopBound
    /\ unit.flags = ExpectedFlags(LoopBound)
    /\ unit.taken = LoopBound - 1
    /\ unit.skipped = 1

\* C35: for k = 1, ..., MaxLoop the program 'LDM #0', 'LOOP: ADD #1',
\* 'CMP #k', 'JPN LOOP', 'END', assembled, loaded and run, halts with
\* ACC = k, the CMP steps having produced false k - 1 times and then true,
\* JPN having jumped k - 1 times and fallen through once.
C35_LoopCountsToBound == <>HaltedAsExpected

\* Whenever step returns True, the run was the expected one.
HaltOnlyAsExpected ==
    (last.op = "step" /\ last.finished) => HaltedAsExpected

\* C35 witness: the loop that counts to 3 has halted with ACC = 3 after the
\* flags false, false, true.
C35_Witness ==
    /\ HaltedAsExpected
    /\ LoopBound = 3
    /\ unit.flags = << FALSE, FALSE, TRUE >>
    /\ unit.taken = 2

-----------------------------------------------------------------------------
(* The interactive application: CPUInterfaceApp of src/CIE_CPU_Sim.py.     *)
(*   unit   the application object: assembling, code_ready, _finished and  *)
(*          whether assembler_stepper is set                               *)
(*   asm    its assembler_stepper, once compile has set it                 *)
(*   cpus   its CPU, cpus[1]                                               *)
(*   calls  the ticks made                                                 *)

\* Ticks followed in the application.
MaxTicks == 42

\* 'LDM #x', 'END' and 'OUT': an assembly that raises ValueError and one
\* that ends in ERROR (no END).
RaisingProgram == << <<"L","D","M"," ","#","x">>, LineEnd >>
FailingProgram == << LineOut >>

\* The texts of the editor, as their lines; the empty text is << >>.
AppSources ==
    { << >>, << LineEnd >>, MinimalProgram, VariableRoundTrip(42),
      RaisingProgram, FailingProgram }

\* CPUInterfaceApp(cpu)
CPUInterfaceApp ==
    [name |-> "CPUInterfaceApp", assembler_stepper |-> NoneMsg,
     assembling |-> FALSE, _finished |-> FALSE, code_ready |-> FALSE]

\* CPUInterfaceApp.check_action(action, parameters)
check_action(self, action) ==
    CASE action = "quit" -> TRUE
      [] action = "tick" -> self.assembling \/ self.code_ready
      [] action = "compile" -> ~self.assembling /\ ~self.code_ready
      [] OTHER -> FALSE

RECURSIVE StreamWrites(_, _)
\* for write in snapshot.ram_writes: ram_address.write(write.address);
\* ram.write(write.value)
StreamWrites(c, ram_writes) ==
    IF ram_writes = << >> THEN c
    ELSE StreamWrites(
             ComponentWrite(
                 ComponentWrite(c, "RAM_ADDRESS", Head(ram_writes).address,
                                FALSE).c,
                 "RAM_DATA", Head(ram_writes).value, FALSE).c,
             Tail(ram_writes))

\* What a call of an action leaves: the application, its stepper and CPU,
\* the iterator, the exception that left the call, whether CPU.step was
\* called and the snapshot the stepper returned (<< >> if none).
Acted(self, stepper, c, position, raised, stepped, snapshot) ==
    [self |-> self, stepper |-> stepper, c |-> c, CYCLE_PHASES |-> position,
     raised |-> raised, stepped |-> stepped, snapshot |-> snapshot]

\* CPUInterfaceApp.action_tick()
action_tick(self, stepper, c, position) ==
    LET \* after snapshot = self.assembler_stepper.step()
        Assembling(r) ==
            IF r.raised # NoneMsg
            THEN Acted(self, r.self, c, position, r.raised, FALSE, << >>)
            ELSE Acted(IF r.snapshot.phase = PHASE_DONE
                       THEN [self EXCEPT !.assembling = FALSE,
                                         !.code_ready = TRUE]
                       ELSE self,
                       r.self,
                       StreamWrites(
                           [c EXCEPT !.components["RAM_DATA"].last_active =
                                         r.snapshot.ram_writes # << >>],
                           r.snapshot.ram_writes),
                       position, NoneMsg, FALSE, r.snapshot)
        \* after self._finished = self.cpu.step()
        Running(r) ==
            Acted(IF r.raised # NoneMsg THEN self
                  ELSE [self EXCEPT !._finished = r.finished],
                  stepper, r.c, r.CYCLE_PHASES, r.raised, TRUE, << >>)
    IN IF self.assembling /\ self.assembler_stepper # NoneMsg
       THEN Assembling(step(stepper))
       ELSE IF self._finished
       THEN Acted(self, stepper, c, position, NoneMsg, FALSE, << >>)
       ELSE Running(CPU_step(c, position))

\* CPUInterfaceApp.action_compile(), source_lines the lines of the text of
\* the editor
action_compile(self, stepper, c, position, source_lines) ==
    IF \A i \in 1..Len(source_lines) : Strip(source_lines[i]) = << >>
    THEN Acted(self, stepper, c, position, NoneMsg, FALSE, << >>)
    ELSE Acted([self EXCEPT !._finished = FALSE, !.code_ready = FALSE,
                            !.assembling = TRUE,
                            !.assembler_stepper = "AssemblerStepper"],
               AssemblerStepper(source_lines),
               ComponentWrite(ComponentWrite(c, "RAM_ADDRESS", 0, FALSE).c,
                              "PC", 0, FALSE).c,
               position, NoneMsg, FALSE, << >>)

\* The call of an action, with the application and the phase of the
\* stepper before it.
AppCalled(op, r) ==
    [op |-> op, raised |-> r.raised, stepped |-> r.stepped,
     snapshot |-> r.snapshot, before |-> unit, phase |-> asm.phase]

\* An action has been called with outcome r.
AppActed(op, r) ==
    /\ unit' = r.self
    /\ asm' = r.stepper
    /\ cpus' = [cpus EXCEPT ![1] = r.c]
    /\ CYCLE_PHASES' = r.CYCLE_PHASES
    /\ last' = AppCalled(op, r)

\* The key of compile, when the application enables the action.
Compile ==
    /\ check_action(unit, "compile")
    /\ \E source_lines \in AppSources :
        AppActed("compile",
                 action_compile(unit, asm, cpus[1], CYCLE_PHASES,
                                source_lines))
    /\ UNCHANGED calls

\* The key of tick, when the application enables the action.
Tick ==
    /\ calls < MaxTicks
    /\ check_action(unit, "tick")
    /\ AppActed("tick", action_tick(unit, asm, cpus[1], CYCLE_PHASES))
    /\ calls' = calls + 1

\* main(): cpu = CPU(); app = CPUInterfaceApp(cpu)
InitApp ==
    /\ asm = AssemblerStepper(<< >>)
    /\ last = [op |-> "new", raised |-> NoneMsg, stepped |-> FALSE,
               snapshot |-> << >>, before |-> NoUnit, phase |-> PHASE_TRIM]
    /\ calls = 0
    /\ cpus = << CPU(0).c >>
    /\ CYCLE_PHASES = CPU(0).CYCLE_PHASES
    /\ unit = CPUInterfaceApp

NextApp == Compile \/ Tick

SpecApp == InitApp /\ [][NextApp]_vars

\* A tick can be made: Tick is enabled.
TickPending == calls < MaxTicks /\ check_action(unit, "tick")

\* A tick is made, as far as the count of the ticks shows.
TickMade == TickPending /\ calls' = calls + 1

\* The user compiles a text and keeps ticking.
SpecAppFair == SpecApp /\ WF_vars(Compile) /\ WF_calls(TickMade)

-----------------------------------------------------------------------------
(* C38 *)

\* The last tick advanced the assembler, which returned a snapshot.
SnapshotTaken ==
    /\ last.op = "tick" /\ last.raised = NoneMsg
    /\ last.before.assembling /\ last.before.assembler_stepper # NoneMsg

\* Each RAM write of the snapshot is a word of emitted_words, at its
\* address.
WritesAreEmittedWords ==
    SnapshotTaken =>
        \A k \in 1..Len(last.snapshot.ram_writes) :
            /\ last.snapshot.ram_writes[k].address + 1
                   \in 1..Len(asm.emitted_words)
            /\ asm.emitted_words[last.snapshot.ram_writes[k].address + 1]
                   = last.snapshot.ram_writes[k].value

\* The last tick completed the assembly.
AssemblyCompleted ==
    SnapshotTaken /\ last.phase # PHASE_DONE /\ asm.phase = PHASE_DONE

\* The memory the streamed writes have left is the one load_program makes of
\* emitted_words.
StreamedIsLoaded ==
    AssemblyCompleted =>
        cpus[1].components["RAM_DATA"].memory
            = load_program(CPU(0).c, asm.emitted_words)
                  .components["RAM_DATA"].memory

\* C38: in a completed assembly emitted_words is the memory image: each RAM
\* write (a, w) of pass 2 has emitted_words[a] = w, and load_program of
\* emitted_words gives the memory that the streamed writes give.
C38_EmittedWordsAreMemoryImage == WritesAreEmittedWords /\ StreamedIsLoaded

\* The same for the programs without a variable line.
ImageWithoutVariables ==
    asm.raw_lines # VariableRoundTrip(42) => C38_EmittedWordsAreMemoryImage

\* C38: the assembly of 'LDD X', 'OUT', 'END', 'X: #42' is complete; the
\* streamed writes have left 42 at address 0 and nothing at address 4,
\* where emitted_words has it.
C38_VariableOverInstruction ==
    /\ AssemblyCompleted
    /\ asm.emitted_words = << 256, 0, 5120, 5376, 42 >>
    /\ M(cpus[1], 0) = 42
    /\ M(cpus[1], 4) = 0

\* The assembly of 'LDM #5', 'OUT', 'END' is complete and the memory is
\* emitted_words.
C38_ImageOfMinimalProgram ==
    /\ AssemblyCompleted
    /\ asm.raw_lines = MinimalProgram
    /\ \A a \in 1..Len(asm.emitted_words) :
           M(cpus[1], a - 1) = asm.emitted_words[a]

-----------------------------------------------------------------------------
(* C40 *)

\* CPU.step was called only with the stepper in DONE.
StepOnlyAfterDone ==
    (last.op = "tick" /\ last.stepped) =>
        /\ last.before.assembler_stepper # NoneMsg
        /\ last.phase = PHASE_DONE

\* An assembly started by compile has ended in ERROR.
EndedInError == unit.assembler_stepper # NoneMsg /\ asm.phase = PHASE_ERROR

\* The application is out of assembling mode and enables compile.
CompileEnabled == ~unit.assembling /\ check_action(unit, "compile")

\* C40: CPU.step is never called before the assembler has reached DONE, and
\* when an assembly started by compile ends in ERROR the application leaves
\* assembling mode, so that after finitely many ticks compile is enabled
\* again.
C40_StepAfterDoneCompileAfterError ==
    /\ []StepOnlyAfterDone
    /\ EndedInError ~> CompileEnabled

\* What holds of the second part: after an ERROR the application stays in
\* assembling mode with compile disabled.
ErrorKeepsAssembling ==
    EndedInError => unit.assembling /\ ~check_action(unit, "compile")

\* C40: a tick was made with the stepper in ERROR and the application is
\* still assembling.
C40_TickedInError ==
    /\ last.op = "tick"
    /\ last.phase = PHASE_ERROR
    /\ EndedInError
    /\ unit.assembling

\* CPU.step has been called by a tick, after DONE.
C40_SteppedAfterDone ==
    /\ last.op = "tick" /\ last.stepped
    /\ last.phase = PHASE_DONE

-----------------------------------------------------------------------------
(* The specification of the machine programs.                              *)

\* The programs given to load_program.
ExecPrograms ==
    FetchPrograms \union MovePrograms \union ArithmeticPrograms
        \union ShiftPrograms \union ComparePrograms
        \union JumpPrograms \union RegisterPrograms
        \union InvalidRegisterPrograms
        \union InputPrograms \union OutputPrograms

\* One CPU in the process, no program yet.
InitExec == Process({ << LineEnd >> })

NextExec ==
    \/ Construct(1) \/ LoadMachineProgram(ExecPrograms)
    \/ CpuStep(MaxExecCalls) \/ Feed

SpecExec == InitExec /\ [][NextExec]_vars

-----------------------------------------------------------------------------
(* Loading programs: load_program on a new CPU and on a CPU that has run.  *)

\* CPU.step calls followed on the CPU of SpecLoad.
MaxLoadCalls == 14

\* Programs whose first word is an instruction: LDM #7, END; OUT, END; END.
StartablePrograms ==
    { Long("LDM", IMMEDIATE, 7) \o End, Short("OUT", NONE, 0) \o End, End }

\* The programs loaded again and again: the startable ones and a program
\* with words below 0 and above 65535.
ShortPrograms == StartablePrograms \union { << -1, 65536, 70000 >> \o End }

\* A program one word longer than the memory: 65536 words 0 and END.
LongProgram ==
    [i \in 1..(WordModulus + 1) |-> IF i = WordModulus + 1 THEN 5376 ELSE 0]

\* cpu.load_program(program) on a CPU that holds a program already
Reload(programs, bound) ==
    /\ calls < bound
    /\ \E i \in 1..Len(cpus) :
        /\ Loaded(cpus[i])
        /\ \E program \in programs :
            cpus' = [cpus EXCEPT ![i] = load_program(@, program)]
        /\ last' = Called("load_program", NoneMsg, FALSE, i, cpus[i])
    /\ UNCHANGED <<asm, calls, CYCLE_PHASES, unit>>

\* One CPU in the process, no program yet.
InitLoad == Process({ << LineEnd >> })

NextLoad ==
    \/ Construct(1)
    \/ LoadMachineProgram(ShortPrograms \union {LongProgram})
    \/ Reload(ShortPrograms, MaxLoadCalls)
    \/ CpuStep(MaxLoadCalls)

SpecLoad == InitLoad /\ [][NextLoad]_vars

-----------------------------------------------------------------------------
(* C31: what load_program stores.                                          *)

\* The memory of the CPU.
Memory(c) == c.components["RAM_DATA"].memory

\* d is c after load_program(p): the word p[i] mod 2^16 at every address i
\* below len(p), the cells from len(p) on as in c, PC = 0.
StoredAsStated(c, d, p) ==
    /\ \A i \in 0..(Len(p) - 1) : M(d, i) = p[i + 1] % WordModulus
    /\ \A a \in DOMAIN Memory(c) \union DOMAIN Memory(d) :
           a >= Len(p) => MemoryGet(Memory(d), a) = MemoryGet(Memory(c), a)
    /\ Reg(d, "PC") = 0

\* C31: load_program(p) stores p[i] mod 2^16 at address i for every i below
\* len(p), leaves every memory cell at an address of len(p) or more
\* unchanged, and ends with PC = 0. Checked for the short programs on every
\* CPU reached and for the long program on the new CPU.
C31_LoadStoresProgram ==
    \A i \in 1..Len(cpus) :
        /\ \A p \in ShortPrograms :
               StoredAsStated(cpus[i], load_program(cpus[i], p), p)
        /\ ~Loaded(cpus[i])
               => StoredAsStated(cpus[i], load_program(cpus[i], LongProgram),
                                 LongProgram)

\* END has been loaded over LDM #7, END with PC at 2: the literal 7 is still
\* at address 1.
C31_Witness ==
    /\ last.op = "load_program" /\ Loaded(last.before)
    /\ Reg(last.before, "PC") = 2 /\ Reg(cpus[last.cpu], "PC") = 0
    /\ M(last.before, 0) = 0 /\ M(cpus[last.cpu], 0) = 5376
    /\ M(cpus[last.cpu], 1) = 7
    /\ StoredAsStated(last.before, cpus[last.cpu], End)

\* The words -1, 65536 and 70000 have been loaded as 65535, 0 and 4464.
C31_WitnessMasked ==
    /\ last.op = "load_program"
    /\ M(cpus[last.cpu], 0) = 65535 /\ M(cpus[last.cpu], 1) = 0
    /\ M(cpus[last.cpu], 2) = 4464 /\ M(cpus[last.cpu], 3) = 5376

-----------------------------------------------------------------------------
(* C32: the range of the values the CPU holds.                             *)

\* The values of a 16-bit word.
Words == 0..(WordModulus - 1)

\* The registers, the address port of the RAM, the memory cells and the
\* result of the ALU hold words.
HoldsWords(c) ==
    /\ \A name \in RegisterNames : Reg(c, name) \in Words
    /\ c.components["RAM_ADDRESS"].address \in Words
    /\ \A a \in DOMAIN Memory(c) : Memory(c)[a] \in Words
    /\ c.components["ALU"].result \in Words

\* The memory has no cell outside the addresses 0..65535.
AddressesAreWords(c) == DOMAIN Memory(c) \subseteq Words

\* C32: in every state reachable through load_program (with a program of any
\* length) and any number of CPU.step calls, PC, ACC, IX, MAR, MDR, CIR, the
\* RAM address port, every memory cell and the stored ALU result hold values
\* in 0..65535, and the set of memory addresses stays 0..65535.
C32_WordsEverywhere ==
    \A i \in 1..Len(cpus) : HoldsWords(cpus[i]) /\ AddressesAreWords(cpus[i])

\* The same for the CPUs whose program fits in the memory: loaded with at
\* most 65536 words, they hold words only.
WordsWhenProgramFits ==
    \A i \in 1..Len(cpus) :
        M(cpus[i], WordModulus) = 0
            => HoldsWords(cpus[i]) /\ AddressesAreWords(cpus[i])

\* The program of 65537 words has been loaded: the memory has a cell at the
\* address 65536 and the address port of the RAM holds 65536.
C32_CellPastTheMemory ==
    /\ last.op = "load_program"
    /\ WordModulus \in DOMAIN Memory(cpus[last.cpu])
    /\ cpus[last.cpu].components["RAM_ADDRESS"].address = WordModulus

-----------------------------------------------------------------------------
(* C39 *)

\* The outcome r of a step call is the first step of a fetch at address 0:
\* MAR <- PC with PC = 0.
FirstFetchStepAtZero(r) ==
    /\ r.raised = NoneMsg
    /\ ~r.finished
    /\ r.c.cu.current_phase = "fetch"
    /\ r.c.cu.RTN_sequence_index = 1
    /\ Reg(r.c, "MAR") = 0

\* The outcome r of the step calls up to the end of the decode phase has
\* the word at address 0 as the instruction.
FirstWordDecoded(r) ==
    /\ r.raised = NoneMsg
    /\ EntersExecute(r.c)
    /\ Reg(r.c, "CIR") = M(r.c, 0)

\* The step calls that follow on the CPU c start a fetch at address 0 and
\* bring the word at 0 to EXECUTE.
StartsAtZero(c) ==
    /\ FirstFetchStepAtZero(CPU_step(c, CYCLE_PHASES))
    /\ FirstWordDecoded(FetchAndDecode(c, CYCLE_PHASES))

\* load_program has just been called with a program whose first word is
\* an instruction.
InstructionLoaded ==
    /\ last.op = "load_program"
    /\ DefinitionOf(M(cpus[last.cpu], 0)).mnemonic # NoneMsg

\* C39: after load_program(p) on a CPU in any state it can be in (new, in
\* the middle of an instruction, halted), the step calls that follow start
\* a new fetch at address 0, so the first instruction fetched and executed
\* is p[0].
C39_LoadRestartsAtZero == InstructionLoaded => StartsAtZero(cpus[last.cpu])

\* The CPU is between two instructions: new, or at the end of an EXECUTE
\* sequence that is not the empty one of END.
BetweenInstructions(c) ==
    /\ c.cu.RTN_sequence # << >>
    /\ \/ c.cu.current_phase = "fetch" /\ c.cu.RTN_sequence_index = 0
       \/ /\ c.cu.current_phase = "execute"
          /\ c.cu.RTN_sequence_index >= Len(c.cu.RTN_sequence)

\* What holds: a load on a CPU that is between two instructions is followed
\* by the fetch at 0.
LoadBetweenInstructionsRestarts ==
    (InstructionLoaded /\ BetweenInstructions(last.before))
        => StartsAtZero(cpus[last.cpu])

\* The outcome r of a step call is that of a halted CPU.
StepReturnsTrue(r) == r.raised = NoneMsg /\ r.finished

\* C39: a program was loaded on a halted CPU, whose next step call returns
\* True without fetching.
C39_HaltedStaysHalted ==
    /\ InstructionLoaded
    /\ last.before.cu.RTN_sequence = << >>
    /\ M(cpus[last.cpu], 0) = 0
    /\ StepReturnsTrue(CPU_step(cpus[last.cpu], CYCLE_PHASES))

\* C39: a program was loaded on a CPU in the middle of a sequence, which
\* the next step call goes on with.
C39_LoadedInMidSequence ==
    /\ InstructionLoaded
    /\ last.before.cu.RTN_sequence_index \in
           1..(Len(last.before.cu.RTN_sequence) - 1)
    /\ ~StartsAtZero(cpus[last.cpu])

\* A program was loaded on a CPU at the end of an instruction, and the
\* fetch at 0 follows.
C39_LoadedBetweenInstructions ==
    /\ InstructionLoaded
    /\ last.before.cu.current_phase = "execute"
    /\ BetweenInstructions(last.before)
    /\ StartsAtZero(cpus[last.cpu])

=============================================================================
